---- MODULE Spec2Model ----
(***************************************************************************)
(* Transaction lifecycle of the Bun SQLite driver adapter: the AsyncMutex  *)
(* (Access Serializer), startTransaction, Transaction.commit / rollback,   *)
(* dispose and the adapter-level statements, as the three revisions of the *)
(* adapter kept in the repository implement them.                          *)
(*                                                                         *)
(*   "v011"  src/src/bunsqlite-adapter.ts   (usePhantomQuery: true)        *)
(*   "v040"  src/unnamed/part_003           (usePhantomQuery: false)       *)
(*   "v060"  src/unnamed/part_002           (adapter class only; it uses   *)
(*           the Transaction and AsyncMutex of part_003)                   *)
(*                                                                         *)
(* JavaScript runs each handler to completion up to its next await, so one *)
(* action is one such run: the part of startTransaction / dispose up to    *)
(* `await acquire()`, and the part after it.                               *)
(***************************************************************************)
EXTENDS Integers, Sequences, FiniteSets, TLC

\* Number of concurrent logical tasks calling the adapter.
NProcs == 4

Procs == 1..NProcs

\* No task: the value of last.woke when no waiter was handed the lock.
NoProc == NProcs + 1

Builds == {"v011", "v040", "v060"}

IsolationLevels == {"ABSENT", "SERIALIZABLE", "READ COMMITTED"}

VARIABLES
    build,      \* which revision of the adapter is running
    locked,     \* AsyncMutex.locked
    queue,      \* AsyncMutex.queue: the waiters, oldest first
    disposed,   \* BunSqliteAdapter.disposed (v060)
    db,         \* the connection: "open" or "closed"
    engineTx,   \* the engine has an open transaction
    pc,         \* where each task is
    ended,      \* history: COMMIT / ROLLBACK statements issued for the task's
                \* Transaction up to the return of its first commit() / rollback()
    order,      \* history: the pending acquirers in the order they called
    last,       \* history: the handler run by the last step
    call,       \* the call under study of a function that keeps no state
    result,     \* what that call returned or threw
    table       \* the table the statements under study write and read

vars == <<build, locked, queue, disposed, db, engineTx, pc, ended, order, last,
          call, result, table>>

\* No call of a stateless function is under study.
NoCall == [fn |-> "none"]

\* No table is under study.
NoTable == [columns |-> <<>>, rows |-> <<>>, dedup |-> FALSE, safeIntegers |-> TRUE]

\* Tasks free to make a call: "done" is idle with a completed Transaction still
\* in hand.
Callable == {"idle", "done"}

\* Tasks suspended in acquire().
Pending == {"waiting", "dwaiting"}

\* Tasks that own a Transaction that is not completed.
InTransaction == {"inTx", "ending"}

\* Tasks that were handed the lock and have not released it.
Holding == {"granted", "inTx", "ending", "dgranted"}

----
\* TransactionOptions.usePhantomQuery of each revision.
usePhantomQuery(b) == b = "v011"

\* AsyncMutex.acquire: take the free lock, or join the queue.
acquire(l, q, p) ==
    IF ~l
    THEN [locked |-> TRUE, queue |-> q, granted |-> TRUE]
    ELSE [locked |-> l, queue |-> Append(q, p), granted |-> FALSE]

\* release as it would be with pop() in place of shift(): the newest waiter
\* is handed the lock.
releaseLifo(l, q) ==
    IF q # <<>>
    THEN [locked |-> TRUE, queue |-> SubSeq(q, 1, Len(q) - 1), woke |-> q[Len(q)]]
    ELSE [locked |-> FALSE, queue |-> q, woke |-> NoProc]

\* release as it would be if the shifted waiter were not called.
releaseNoHandOff(l, q) ==
    IF q # <<>>
    THEN [locked |-> TRUE, queue |-> Tail(q), woke |-> NoProc]
    ELSE [locked |-> FALSE, queue |-> q, woke |-> NoProc]

\* release as it would be if the flag were cleared before the waiter is called.
releaseClearing(l, q) ==
    IF q # <<>>
    THEN [locked |-> FALSE, queue |-> Tail(q), woke |-> Head(q)]
    ELSE [locked |-> FALSE, queue |-> q, woke |-> NoProc]

\* AsyncMutex.release: hand the lock to the oldest waiter, or free it.
release(l, q) ==
    IF q # <<>>
    THEN [locked |-> TRUE, queue |-> Tail(q), woke |-> Head(q)]
    ELSE [locked |-> FALSE, queue |-> q, woke |-> NoProc]

\* The waiter's queued closure resolves its promise: it resumes as the holder.
Wake(f, w) ==
    [q \in Procs |->
        IF q = w
        THEN (IF f[q] = "waiting" THEN "granted" ELSE "dgranted")
        ELSE f[q]]

\* The engine's answer to BEGIN / COMMIT / ROLLBACK.  BEGIN fails inside a
\* transaction, COMMIT and ROLLBACK fail outside one, everything fails on a
\* closed connection; a COMMIT may also fail (busy) and leave the transaction
\* open: `ok` is that outcome.
EngineRun(stmt, open, tx, ok) ==
    CASE stmt = "BEGIN" ->
            IF open /\ ~tx THEN [ok |-> TRUE, tx |-> TRUE]
                           ELSE [ok |-> FALSE, tx |-> tx]
      [] stmt = "COMMIT" ->
            IF open /\ tx /\ ok THEN [ok |-> TRUE, tx |-> FALSE]
                                ELSE [ok |-> FALSE, tx |-> tx]
      [] stmt = "ROLLBACK" ->
            IF open /\ tx THEN [ok |-> TRUE, tx |-> FALSE]
                          ELSE [ok |-> FALSE, tx |-> tx]
      [] OTHER -> [ok |-> open, tx |-> tx]

\* History: the pending acquirers, in call order, after a step to f.
Track(o, f) ==
    LET kept == SelectSeq(o, LAMBDA q: f[q] \in Pending)
        new  == {q \in Procs: f[q] \in Pending /\ \A i \in 1..Len(o): o[i] # q}
    IN  IF new = {} THEN kept ELSE Append(kept, CHOOSE q \in new: TRUE)

Ran(op, res, ev, woke, again) ==
    [op |-> op, res |-> res, ev |-> ev, woke |-> woke, again |-> again]

----
Init ==
    /\ build \in Builds
    /\ locked = FALSE
    /\ queue = <<>>
    /\ disposed = FALSE
    /\ db = "open"
    /\ engineTx = FALSE
    /\ pc = [p \in Procs |-> "idle"]
    /\ ended = [p \in Procs |-> 0]
    /\ order = <<>>
    /\ last = Ran("init", "ok", <<>>, NoProc, FALSE)
    /\ call = NoCall
    /\ result = NoCall
    /\ table = NoTable

\* startTransaction as it would be with the isolation level checked after the
\* lock is acquired.
StartTransactionLateCheck(p, iso) ==
    /\ pc[p] \in Callable
    /\ LET a == acquire(locked, queue, p)
           f == [pc EXCEPT ![p] = IF a.granted THEN "granted" ELSE "waiting"]
       IN  /\ locked' = a.locked
           /\ queue' = a.queue
           /\ pc' = f
           /\ ended' = [ended EXCEPT ![p] = 0]
           /\ order' = Track(order, f)
           /\ last' = Ran("startTransaction",
                          IF iso \notin {"ABSENT", "SERIALIZABLE"} THEN "InvalidIsolationLevel" ELSE "await",
                          <<"acquire">>, NoProc, FALSE)
    /\ UNCHANGED <<call, result, table, build, disposed, db, engineTx>>

\* startTransaction up to `await this.transactionMutex.acquire()`.
StartTransaction(p, iso) ==
    /\ pc[p] \in Callable
    /\ IF iso \notin {"ABSENT", "SERIALIZABLE"}
       THEN /\ last' = Ran("startTransaction", "InvalidIsolationLevel", <<>>, NoProc, FALSE)
            /\ UNCHANGED <<locked, queue, pc, ended, order>>
       ELSE LET a == acquire(locked, queue, p)
                f == [pc EXCEPT ![p] = IF a.granted THEN "granted" ELSE "waiting"]
            IN  /\ locked' = a.locked
                /\ queue' = a.queue
                /\ pc' = f
                /\ ended' = [ended EXCEPT ![p] = 0]
                /\ order' = Track(order, f)
                /\ last' = Ran("startTransaction", "await", <<"acquire">>, NoProc, FALSE)
    /\ UNCHANGED <<call, result, table, build, disposed, db, engineTx>>

\* startTransaction after the await, part_002: BEGIN, construct the
\* Transaction; a failed construction rolls the engine back; any failure
\* releases the lock and throws.
StartTransactionResumeV060(p, ctorOk) ==
    /\ build = "v060"
    /\ pc[p] = "granted"
    /\ LET b == EngineRun("BEGIN", db = "open", engineTx, TRUE)
       IN  IF b.ok /\ ctorOk
           THEN /\ engineTx' = b.tx
                /\ pc' = [pc EXCEPT ![p] = "inTx"]
                /\ ended' = [ended EXCEPT ![p] = 0]
                /\ last' = Ran("resume", "Transaction", <<"BEGIN", "construct">>, NoProc, FALSE)
                /\ UNCHANGED <<locked, queue, order>>
           ELSE LET rb == IF b.ok THEN EngineRun("ROLLBACK", db = "open", b.tx, TRUE) ELSE b
                    r  == release(locked, queue)
                    f  == Wake([pc EXCEPT ![p] = "idle"], r.woke)
                IN  /\ engineTx' = rb.tx
                    /\ locked' = r.locked
                    /\ queue' = r.queue
                    /\ pc' = f
                    /\ ended' = ended
                    /\ order' = Track(order, f)
                    /\ last' = Ran("resume", "error",
                                   IF b.ok THEN <<"BEGIN", "construct!", "ROLLBACK", "release", "throw">>
                                           ELSE <<"BEGIN!", "release", "throw">>,
                                   r.woke, FALSE)
    /\ UNCHANGED <<call, result, table, build, disposed, db>>

\* startTransaction after the await as it would be without `releaseLock()` in
\* its catch block: a failure throws with the lock still held.
StartTransactionResumeLeaking(p, ctorOk) ==
    /\ build \in {"v011", "v040"}
    /\ pc[p] = "granted"
    /\ LET b == EngineRun("BEGIN", db = "open", engineTx, TRUE)
       IN  IF b.ok /\ ctorOk
           THEN /\ engineTx' = b.tx
                /\ pc' = [pc EXCEPT ![p] = "inTx"]
                /\ ended' = [ended EXCEPT ![p] = 0]
                /\ last' = Ran("resume", "Transaction", <<"BEGIN", "construct">>, NoProc, FALSE)
                /\ UNCHANGED <<locked, queue, order>>
           ELSE /\ engineTx' = b.tx
                /\ pc' = [pc EXCEPT ![p] = "idle"]
                /\ last' = Ran("resume", "error",
                               IF b.ok THEN <<"BEGIN", "construct!", "throw">> ELSE <<"BEGIN!", "throw">>,
                               NoProc, FALSE)
                /\ UNCHANGED <<locked, queue, ended, order>>
    /\ UNCHANGED <<call, result, table, build, disposed, db>>

\* startTransaction after the await, part_003 (bunsqlite-adapter.ts has the
\* same code): BEGIN, construct the Transaction; any failure releases the lock
\* and throws.
StartTransactionResumeV040(p, ctorOk) ==
    /\ build \in {"v011", "v040"}
    /\ pc[p] = "granted"
    /\ LET b == EngineRun("BEGIN", db = "open", engineTx, TRUE)
       IN  IF b.ok /\ ctorOk
           THEN /\ engineTx' = b.tx
                /\ pc' = [pc EXCEPT ![p] = "inTx"]
                /\ ended' = [ended EXCEPT ![p] = 0]
                /\ last' = Ran("resume", "Transaction", <<"BEGIN", "construct">>, NoProc, FALSE)
                /\ UNCHANGED <<locked, queue, order>>
           ELSE LET r == release(locked, queue)
                    f == Wake([pc EXCEPT ![p] = "idle"], r.woke)
                IN  /\ engineTx' = b.tx
                    /\ locked' = r.locked
                    /\ queue' = r.queue
                    /\ pc' = f
                    /\ ended' = ended
                    /\ order' = Track(order, f)
                    /\ last' = Ran("resume", "error",
                                   IF b.ok THEN <<"BEGIN", "construct!", "release", "throw">>
                                           ELSE <<"BEGIN!", "release", "throw">>,
                                   r.woke, FALSE)
    /\ UNCHANGED <<call, result, table, build, disposed, db>>

\* The caller of a Transaction whose options say usePhantomQuery: false sends
\* the COMMIT or ROLLBACK itself, as a statement through executeRaw, before it
\* calls commit() or rollback().
TxExecuteRaw(p, stmt, ok) ==
    /\ ~usePhantomQuery(build)
    /\ pc[p] = "inTx"
    /\ LET e == EngineRun(stmt, db = "open", engineTx, ok)
       IN  /\ engineTx' = e.tx
           /\ last' = Ran("tx.executeRaw", IF e.ok THEN "ok" ELSE "error",
                          <<IF e.ok THEN stmt ELSE stmt \o "!">>, NoProc, FALSE)
    /\ pc' = [pc EXCEPT ![p] = "ending"]
    /\ ended' = [ended EXCEPT ![p] = @ + 1]
    /\ UNCHANGED <<call, result, table, build, locked, queue, disposed, db, order>>

\* Transaction.commit of bunsqlite-adapter.ts as it would be without its
\* `finally`: a failed COMMIT throws with the lock still held.
CommitV011NoFinally(p, ok, again) ==
    /\ build = "v011"
    /\ IF again THEN pc[p] = "done" ELSE pc[p] = "inTx"
    /\ LET e == EngineRun("COMMIT", db = "open", engineTx, ok)
           r == IF e.ok THEN release(locked, queue)
                ELSE [locked |-> locked, queue |-> queue, woke |-> NoProc]
           f == Wake([pc EXCEPT ![p] = "done"], r.woke)
       IN  /\ engineTx' = e.tx
           /\ locked' = r.locked
           /\ queue' = r.queue
           /\ pc' = f
           /\ ended' = [ended EXCEPT ![p] = IF again THEN @ ELSE @ + 1]
           /\ order' = Track(order, f)
           /\ last' = Ran("commit", IF e.ok THEN "ok" ELSE "error",
                          IF e.ok THEN <<"COMMIT", "release">> ELSE <<"COMMIT!", "throw">>,
                          r.woke, again)
    /\ UNCHANGED <<call, result, table, build, disposed, db>>

\* Transaction.commit of bunsqlite-adapter.ts: COMMIT, and release in finally.
\* `again` is a call on a Transaction that was already completed.
CommitV011(p, ok, again) ==
    /\ build = "v011"
    /\ IF again THEN pc[p] = "done" ELSE pc[p] = "inTx"
    /\ LET e == EngineRun("COMMIT", db = "open", engineTx, ok)
           r == release(locked, queue)
           f == Wake([pc EXCEPT ![p] = "done"], r.woke)
       IN  /\ engineTx' = e.tx
           /\ locked' = r.locked
           /\ queue' = r.queue
           /\ pc' = f
           /\ ended' = [ended EXCEPT ![p] = IF again THEN @ ELSE @ + 1]
           /\ order' = Track(order, f)
           /\ last' = Ran("commit", IF e.ok THEN "ok" ELSE "error",
                          IF e.ok THEN <<"COMMIT", "release">> ELSE <<"COMMIT!", "release", "throw">>,
                          r.woke, again)
    /\ UNCHANGED <<call, result, table, build, disposed, db>>

\* Transaction.rollback of bunsqlite-adapter.ts: ROLLBACK, its error ignored,
\* and release in finally.
RollbackV011(p, again) ==
    /\ build = "v011"
    /\ IF again THEN pc[p] = "done" ELSE pc[p] = "inTx"
    /\ LET e == EngineRun("ROLLBACK", db = "open", engineTx, TRUE)
           r == release(locked, queue)
           f == Wake([pc EXCEPT ![p] = "done"], r.woke)
       IN  /\ engineTx' = e.tx
           /\ locked' = r.locked
           /\ queue' = r.queue
           /\ pc' = f
           /\ ended' = [ended EXCEPT ![p] = IF again THEN @ ELSE @ + 1]
           /\ order' = Track(order, f)
           /\ last' = Ran("rollback", "ok",
                          IF e.ok THEN <<"ROLLBACK", "release">> ELSE <<"ROLLBACK!", "release">>,
                          r.woke, again)
    /\ UNCHANGED <<call, result, table, build, disposed, db>>

\* commit / rollback of part_003 as they would be if they also ran the
\* statement, as those of bunsqlite-adapter.ts do.
CompleteV040Issuing(p, op, again) ==
    /\ build \in {"v040", "v060"}
    /\ IF again THEN pc[p] = "done" ELSE pc[p] = "ending"
    /\ LET e == EngineRun(IF op = "commit" THEN "COMMIT" ELSE "ROLLBACK", db = "open", engineTx, TRUE)
           r == release(locked, queue)
           f == Wake([pc EXCEPT ![p] = "done"], r.woke)
       IN  /\ engineTx' = e.tx
           /\ locked' = r.locked
           /\ queue' = r.queue
           /\ pc' = f
           /\ ended' = [ended EXCEPT ![p] = IF again THEN @ ELSE @ + 1]
           /\ order' = Track(order, f)
           /\ last' = Ran(op, "ok", <<"release">>, r.woke, again)
    /\ UNCHANGED <<call, result, table, build, disposed, db>>

\* Transaction.commit and Transaction.rollback of part_003: release the lock,
\* nothing else.
CompleteV040(p, op, again) ==
    /\ build \in {"v040", "v060"}
    /\ IF again THEN pc[p] = "done" ELSE pc[p] = "ending"
    /\ LET r == release(locked, queue)
           f == Wake([pc EXCEPT ![p] = "done"], r.woke)
       IN  /\ locked' = r.locked
           /\ queue' = r.queue
           /\ pc' = f
           /\ ended' = ended
           /\ order' = Track(order, f)
           /\ last' = Ran(op, "ok", <<"release">>, r.woke, again)
    /\ UNCHANGED <<call, result, table, build, disposed, db, engineTx>>

\* dispose of part_003 (bunsqlite-adapter.ts has the same code): close the
\* connection.  Closing ends whatever transaction the engine had open.
DisposeV040(p) ==
    /\ build \in {"v011", "v040"}
    /\ pc[p] \in Callable
    /\ db' = "closed"
    /\ engineTx' = FALSE
    /\ last' = Ran("dispose", "ok", <<"close">>, NoProc, FALSE)
    /\ UNCHANGED <<call, result, table, build, locked, queue, disposed, pc, ended, order>>

\* dispose of part_002 up to `await this.transactionMutex.acquire()`.
DisposeV060(p) ==
    /\ build = "v060"
    /\ pc[p] \in Callable
    /\ IF disposed
       THEN /\ last' = Ran("dispose", "ok", <<>>, NoProc, FALSE)
            /\ UNCHANGED <<locked, queue, disposed, pc, ended, order>>
       ELSE LET a == acquire(locked, queue, p)
                f == [pc EXCEPT ![p] = IF a.granted THEN "dgranted" ELSE "dwaiting"]
            IN  /\ disposed' = TRUE
                /\ locked' = a.locked
                /\ queue' = a.queue
                /\ pc' = f
                /\ ended' = [ended EXCEPT ![p] = 0]
                /\ order' = Track(order, f)
                /\ last' = Ran("dispose", "await", <<"acquire">>, NoProc, FALSE)
    /\ UNCHANGED <<call, result, table, build, db, engineTx>>

\* dispose of part_002 after the await: close, and release in finally.
DisposeResumeV060(p) ==
    /\ build = "v060"
    /\ pc[p] = "dgranted"
    /\ LET r == release(locked, queue)
           f == Wake([pc EXCEPT ![p] = "idle"], r.woke)
       IN  /\ db' = "closed"
           /\ engineTx' = FALSE
           /\ locked' = r.locked
           /\ queue' = r.queue
           /\ pc' = f
           /\ ended' = ended
           /\ order' = Track(order, f)
           /\ last' = Ran("dispose.resume", "ok", <<"close", "release">>, r.woke, FALSE)
    /\ UNCHANGED <<call, result, table, build, disposed>>

\* queryRaw / executeRaw as they would be if statements were serialized
\* through the mutex like transactions.
AdapterStatementLocking(p, op) ==
    /\ pc[p] \in Callable
    /\ LET a == acquire(locked, queue, p)
           f == [pc EXCEPT ![p] = IF a.granted THEN "granted" ELSE "waiting"]
       IN  /\ locked' = a.locked
           /\ queue' = a.queue
           /\ pc' = f
           /\ order' = Track(order, f)
    /\ last' = Ran(op, "await", <<"acquire">>, NoProc, FALSE)
    /\ UNCHANGED <<call, result, table, build, disposed, db, engineTx, ended>>

\* queryRaw / executeRaw on the adapter: prepare and run the statement on the
\* connection; an engine error is converted and thrown.
AdapterStatement(p, op) ==
    /\ pc[p] \in Callable
    /\ last' = Ran(op, IF db = "open" THEN "ok" ELSE "error",
                   <<IF db = "open" THEN "statement" ELSE "statement!">>, NoProc, FALSE)
    /\ UNCHANGED <<call, result, table, build, locked, queue, disposed, db, engineTx, pc, ended, order>>

Next ==
    \/ \E p \in Procs: \E iso \in IsolationLevels: StartTransaction(p, iso)
    \/ \E p \in Procs: \E ctorOk \in BOOLEAN: StartTransactionResumeV060(p, ctorOk)
    \/ \E p \in Procs: \E ctorOk \in BOOLEAN: StartTransactionResumeV040(p, ctorOk)
    \/ \E p \in Procs: \E stmt \in {"COMMIT", "ROLLBACK"}: \E ok \in BOOLEAN: TxExecuteRaw(p, stmt, ok)
    \/ \E p \in Procs: \E ok, again \in BOOLEAN: CommitV011(p, ok, again)
    \/ \E p \in Procs: \E again \in BOOLEAN: RollbackV011(p, again)
    \/ \E p \in Procs: \E op \in {"commit", "rollback"}: \E again \in BOOLEAN: CompleteV040(p, op, again)
    \/ \E p \in Procs: DisposeV040(p)
    \/ \E p \in Procs: DisposeV060(p)
    \/ \E p \in Procs: DisposeResumeV060(p)
    \/ \E p \in Procs: \E op \in {"queryRaw", "executeRaw"}: AdapterStatement(p, op)

Spec == Init /\ [][Next]_vars

\* What a task does without a new call from outside: the event loop resumes a
\* resolved `await acquire()`, and the owner of a Transaction carries it
\* through to its (first) commit() or rollback().
Progress(p) ==
    \/ \E ctorOk \in BOOLEAN: StartTransactionResumeV060(p, ctorOk)
    \/ \E ctorOk \in BOOLEAN: StartTransactionResumeV040(p, ctorOk)
    \/ \E stmt \in {"COMMIT", "ROLLBACK"}: \E ok \in BOOLEAN: TxExecuteRaw(p, stmt, ok)
    \/ \E ok \in BOOLEAN: CommitV011(p, ok, FALSE)
    \/ RollbackV011(p, FALSE)
    \/ \E op \in {"commit", "rollback"}: CompleteV040(p, op, FALSE)
    \/ DisposeResumeV060(p)

\* The steps that act on the mutex, the engine or the connection.
LockNext ==
    \/ \E p \in Procs: \E iso \in {"ABSENT", "SERIALIZABLE"}: StartTransaction(p, iso)
    \/ \E p \in Procs: \E ctorOk \in BOOLEAN: StartTransactionResumeV060(p, ctorOk)
    \/ \E p \in Procs: \E ctorOk \in BOOLEAN: StartTransactionResumeV040(p, ctorOk)
    \/ \E p \in Procs: \E stmt \in {"COMMIT", "ROLLBACK"}: \E ok \in BOOLEAN: TxExecuteRaw(p, stmt, ok)
    \/ \E p \in Procs: \E ok, again \in BOOLEAN: CommitV011(p, ok, again)
    \/ \E p \in Procs: \E again \in BOOLEAN: RollbackV011(p, again)
    \/ \E p \in Procs: \E op \in {"commit", "rollback"}: \E again \in BOOLEAN: CompleteV040(p, op, again)
    \/ \E p \in Procs: DisposeV040(p)
    \/ \E p \in Procs: DisposeV060(p)
    \/ \E p \in Procs: DisposeResumeV060(p)

\* The handlers of LockNext under the fairness of Progress.  The steps of Next
\* that LockNext leaves out (adapter statements, refused isolation levels)
\* change nothing but `last`.
FairSpec == Init /\ [][LockNext]_vars /\ \A p \in Procs: WF_vars(Progress(p))

----
\* The documented queue limit (BACKLOG.md, decision 11: default 1000) scaled to
\* the model: two fewer than the number of tasks, so that the tasks can reach
\* it and go past it.
QueueLimit == NProcs - 2

\* C1: at most one task owns a Transaction that is not yet completed: between
\* the return of startTransaction and the completion of that Transaction's
\* commit() or rollback(), no other startTransaction returns a Transaction.
C1_MutualExclusion ==
    Cardinality({p \in Procs: pc[p] \in InTransaction}) <= 1

\* C2: the lock is granted in call order: a waiter is granted the lock only
\* when it is the earliest pending caller, and a caller that arrives is granted
\* the lock at once only when nobody is pending.
C2_FifoGrant ==
    [][\A p \in Procs:
          (pc'[p] \in {"granted", "dgranted"} /\ pc[p] \notin {"granted", "dgranted"})
              => /\ pc[p] \in Pending => (order # <<>> /\ p = Head(order))
                 /\ pc[p] \notin Pending => order = <<>>]_vars

\* C2 witness: a waiter has just been handed the lock out of a queue of three.
C2_ThreeQueuedOneGranted ==
    /\ last.woke # NoProc
    /\ pc[last.woke] \in {"granted", "dgranted"}
    /\ Len(order) = 2

\* C3: a second commit() / rollback() on a completed Transaction changes
\* nothing in the mutex: the lock flag and the queue stay as they are and no
\* waiter is handed the lock.
C3_DoubleReleaseNoOp ==
    [][last'.again => (locked' = locked /\ queue' = queue /\ last'.woke = NoProc)]_vars

\* C4: the connection is never closed while a task owns an uncompleted
\* Transaction.
C4_CloseWaitsForTransaction ==
    [][(db = "open" /\ db' = "closed") => \A q \in Procs: pc[q] \notin InTransaction]_vars

\* C5: when the construction of the Transaction fails after BEGIN succeeded,
\* startTransaction rolls the engine back, then releases the lock, then throws,
\* and the engine is left with no open transaction.
C5_CompensatingRollback ==
    (last.op = "resume" /\ Len(last.ev) >= 2 /\ last.ev[2] = "construct!")
        => /\ last.ev = <<"BEGIN", "construct!", "ROLLBACK", "release", "throw">>
           /\ ~engineTx

\* C6: every completed Transaction had its COMMIT or ROLLBACK issued exactly
\* once: by commit() / rollback() itself when its options say usePhantomQuery:
\* true, by the caller's statement, and not by commit() / rollback(), when they
\* say false.
C6_ExactlyOneEnd ==
    /\ \A p \in Procs: pc[p] = "done" => ended[p] = 1
    /\ last.op \in {"commit", "rollback"}
          => (usePhantomQuery(build) <=> last.ev[1] \in {"COMMIT", "COMMIT!", "ROLLBACK", "ROLLBACK!"})

\* C6 witness: a task has just completed its Transaction for the first time.
C6_Completed ==
    /\ last.op \in {"commit", "rollback"}
    /\ ~last.again
    /\ \E p \in Procs: pc[p] = "done"

\* C7: a startTransaction with an unsupported isolation level fails without
\* issuing an engine statement and without touching the mutex: the lock flag,
\* the queue, every task's position and the engine stay as they are.
C7_InvalidIsolationLevel ==
    [][last'.res = "InvalidIsolationLevel"
          => /\ last'.ev = <<>>
             /\ UNCHANGED <<locked, queue, pc, order, db, engineTx, disposed>>]_vars

\* C7 witness: the call was refused while the lock was held and waiters queued.
C7_RefusedWhileHeld ==
    /\ last.res = "InvalidIsolationLevel"
    /\ locked
    /\ queue # <<>>
    /\ \E p \in Procs: pc[p] \in InTransaction

\* C8: under FairSpec, every task suspended in acquire(), by startTransaction
\* or by dispose, is eventually granted the lock and its call returns.
C8_NoStarvation ==
    \A p \in Procs:
        (pc[p] \in Pending) ~> (pc[p] \in {"idle", "done", "inTx", "ending"})

\* C8 witness: a dispose() and a startTransaction are both suspended.
C8_BothPending ==
    /\ \E p \in Procs: pc[p] = "waiting"
    /\ \E p \in Procs: pc[p] = "dwaiting"

\* C9: the waiting queue never grows beyond its limit.
C9_QueueBounded ==
    Len(queue) <= QueueLimit

\* C10: queryRaw and executeRaw on the adapter do not touch the mutex and do
\* not suspend: the lock flag, the queue and every task's position stay as
\* they are, and the call has returned when the step ends.
C10_StatementsTakeNoLock ==
    [][last'.op \in {"queryRaw", "executeRaw"}
          => /\ UNCHANGED <<locked, queue, pc, order>>
             /\ last'.res \in {"ok", "error"}]_vars

\* C10 witness: a statement has run while another task's transaction held the
\* lock and waiters were queued.
C10_StatementWhileHeld ==
    /\ last.op \in {"queryRaw", "executeRaw"}
    /\ last.res = "ok"
    /\ locked
    /\ queue # <<>>
    /\ \E p \in Procs: pc[p] \in InTransaction

----
(***************************************************************************)
(* The error classifier: convertDriverError and the catch blocks that call *)
(* it.  Strings are strings; String.prototype.split, startsWith, includes  *)
(* and Array.prototype.at are computed on their characters.  A property    *)
(* that an object may lack is a set: empty when absent, else one value.    *)
(***************************************************************************)

\* The revisions whose classifier and queryable are in the repository.
SourceBuilds == {"v011", "v040"}

\* String.prototype.indexOf(d, from), 1-based; 0 when d does not occur.
indexOf(s, d, from) ==
    LET hits == {i \in from..(Len(s) - Len(d) + 1): SubSeq(s, i, i + Len(d) - 1) = d}
    IN  IF hits = {} THEN 0 ELSE CHOOSE i \in hits: \A j \in hits: i <= j

startsWith(s, d) == Len(s) >= Len(d) /\ SubSeq(s, 1, Len(d)) = d

includes(s, d) == indexOf(s, d, 1) # 0

\* String.prototype.split(d), d not empty.
RECURSIVE split(_, _)
split(s, d) ==
    LET i == indexOf(s, d, 1)
    IN  IF i = 0
        THEN <<s>>
        ELSE <<SubSeq(s, 1, i - 1)>> \o split(SubSeq(s, i + Len(d), Len(s)), d)

\* Array.prototype.at(k), k counted from 0: absent past the end.
at(a, k) == IF k + 1 <= Len(a) THEN {a[k + 1]} ELSE {}

\* Array.prototype.pop() of a non-empty array: its last element.
pop(a) == a[Len(a)]

\* The field list as it would be if the text after the delimiter phrase were
\* taken as one column instead of split on ", ".
constraintFieldsUnsplit(message) ==
    LET rest == at(split(message, "constraint failed: "), 1)
    IN  {<<pop(split(r, "."))>>: r \in rest}

\* message.split("constraint failed: ").at(1)?.split(", ")
\*        .map((field) => field.split(".").pop())
constraintFields(message) ==
    LET rest == at(split(message, "constraint failed: "), 1)
    IN  IF rest = {}
        THEN {}
        ELSE LET list == split(CHOOSE r \in rest: TRUE, ", ")
             IN  {[i \in 1..Len(list) |-> pop(split(list[i], "."))]}

\* The result codes SQLITE_ERROR_MAP names.
SQLITE_ERROR_MAP ==
    (1 :> "SQLITE_ERROR" @@ 2 :> "SQLITE_INTERNAL" @@ 3 :> "SQLITE_PERM"
     @@ 4 :> "SQLITE_ABORT" @@ 5 :> "SQLITE_BUSY" @@ 6 :> "SQLITE_LOCKED"
     @@ 7 :> "SQLITE_NOMEM" @@ 8 :> "SQLITE_READONLY" @@ 9 :> "SQLITE_INTERRUPT"
     @@ 10 :> "SQLITE_IOERR" @@ 11 :> "SQLITE_CORRUPT" @@ 12 :> "SQLITE_NOTFOUND"
     @@ 13 :> "SQLITE_FULL" @@ 14 :> "SQLITE_CANTOPEN" @@ 15 :> "SQLITE_PROTOCOL"
     @@ 16 :> "SQLITE_EMPTY" @@ 17 :> "SQLITE_SCHEMA" @@ 18 :> "SQLITE_TOOBIG"
     @@ 19 :> "SQLITE_CONSTRAINT" @@ 20 :> "SQLITE_MISMATCH" @@ 21 :> "SQLITE_MISUSE"
     @@ 22 :> "SQLITE_NOLFS" @@ 23 :> "SQLITE_AUTH" @@ 24 :> "SQLITE_FORMAT"
     @@ 25 :> "SQLITE_RANGE" @@ 26 :> "SQLITE_NOTADB"
     @@ 2067 :> "SQLITE_CONSTRAINT_UNIQUE" @@ 1555 :> "SQLITE_CONSTRAINT_PRIMARYKEY"
     @@ 787 :> "SQLITE_CONSTRAINT_NOTNULL" @@ 1811 :> "SQLITE_CONSTRAINT_FOREIGNKEY"
     @@ 1299 :> "SQLITE_CONSTRAINT_TRIGGER")

\* What convertDriverError hands back: a DriverError it returns, or the error
\* it throws.
Returned(d) == [thrown |-> FALSE, value |-> d]
Thrown(e) == [thrown |-> TRUE, value |-> e]

\* A DriverError as it would be if the foreign-key case did not spread
\* baseError into what it returns.
DriverErrorBareForeignKey(kind, code, message, constraint, name) ==
    [kind |-> kind,
     originalCode |-> IF kind = "ForeignKeyConstraintViolation" THEN "" ELSE code,
     originalMessage |-> IF kind = "ForeignKeyConstraintViolation" THEN "" ELSE message,
     constraint |-> constraint, name |-> name]

\* baseError, the kind, and what the kind adds: the constraint, or the name of
\* the table or column.
DriverError(kind, code, message, constraint, name) ==
    [kind |-> kind, originalCode |-> code, originalMessage |-> message,
     constraint |-> constraint, name |-> name]

\* The switch on the code, and the message tests of its default branch: the
\* same text in bunsqlite-adapter.ts and in part_003.
dispatch(e, code, message) ==
    CASE code = "SQLITE_BUSY" ->
            Returned(DriverError("SocketTimeout", code, message, {}, {}))
      [] code \in {"SQLITE_CONSTRAINT_UNIQUE", "SQLITE_CONSTRAINT_PRIMARYKEY"} ->
            Returned(DriverError("UniqueConstraintViolation", code, message,
                                 {[key |-> "fields", fields |-> f]: f \in constraintFields(message)}, {}))
      [] code = "SQLITE_CONSTRAINT_NOTNULL" ->
            Returned(DriverError("NullConstraintViolation", code, message,
                                 {[key |-> "fields", fields |-> f]: f \in constraintFields(message)}, {}))
      [] code \in {"SQLITE_CONSTRAINT_FOREIGNKEY", "SQLITE_CONSTRAINT_TRIGGER"} ->
            Returned(DriverError("ForeignKeyConstraintViolation", code, message,
                                 {[key |-> "foreignKey", fields |-> <<>>]}, {}))
      [] OTHER ->
            IF startsWith(message, "no such table")
            THEN Returned(DriverError("TableDoesNotExist", code, message, {},
                                      at(split(message, ": "), 1)))
            ELSE IF startsWith(message, "no such column")
            THEN Returned(DriverError("ColumnNotFound", code, message, {},
                                      at(split(message, ": "), 1)))
            ELSE IF includes(message, "has no column named")
            THEN Returned(DriverError("ColumnNotFound", code, message, {},
                                      at(split(message, "has no column named "), 1)))
            ELSE Thrown(e)

\* convertDriverError of bunsqlite-adapter.ts: only an error with a string
\* code and a string message is looked at.
convertDriverErrorV011(e) ==
    IF e.code = {} \/ e.message = {}
    THEN Thrown(e)
    ELSE dispatch(e, CHOOSE c \in e.code: TRUE, CHOOSE m \in e.message: TRUE)

\* convertDriverError of part_003: an error with a message and a string code
\* or a numeric errno is looked at; its code is
\* error.code || SQLITE_ERROR_MAP[error.errno] || "SQLITE_UNKNOWN".
convertDriverErrorV040(e) ==
    IF e.message \in {{}, {""}} \/ (e.code = {} /\ e.errno = {})
    THEN Thrown(e)
    ELSE LET named == {SQLITE_ERROR_MAP[n]: n \in e.errno \cap DOMAIN SQLITE_ERROR_MAP}
             code  == IF e.code \notin {{}, {""}} THEN CHOOSE c \in e.code: TRUE
                      ELSE IF named # {} THEN CHOOSE c \in named: TRUE
                      ELSE "SQLITE_UNKNOWN"
         IN  dispatch(e, code, CHOOSE m \in e.message: TRUE)

\* convertDriverError as it would be if an error it cannot place were returned
\* under a catch-all kind instead of thrown.
convertDriverErrorCatchAll(b, e) ==
    LET c == IF b = "v011" THEN convertDriverErrorV011(e) ELSE convertDriverErrorV040(e)
    IN  IF c.thrown
        THEN Returned(DriverError("sqlite", "SQLITE_UNKNOWN", "", {}, {}))
        ELSE c

convertDriverError(b, e) ==
    IF b = "v011" THEN convertDriverErrorV011(e) ELSE convertDriverErrorV040(e)

\* catch (error) { throw new DriverAdapterError(convertDriverError(error)) }:
\* what the handler throws.  When convertDriverError throws, its argument is
\* what leaves the handler.
rethrow(b, e) ==
    LET c == convertDriverError(b, e)
    IN  IF c.thrown
        THEN [raised |-> "original", value |-> c.value]
        ELSE [raised |-> "DriverAdapterError", value |-> c.value]

\* The handlers whose catch block is the one above.
CatchingHandlers == {"queryRaw", "executeRaw", "executeScript", "startTransaction"}

\* Errors as the engine and the host raise them: a SQLiteError has an errno
\* and a message, and a code when it is a constraint error; an error of the
\* host (a TypeError, a RangeError) has a message alone.
Codes ==
    {"SQLITE_BUSY", "SQLITE_CONSTRAINT_UNIQUE", "SQLITE_CONSTRAINT_PRIMARYKEY",
     "SQLITE_CONSTRAINT_NOTNULL", "SQLITE_CONSTRAINT_FOREIGNKEY",
     "SQLITE_CONSTRAINT_TRIGGER", "SQLITE_CONSTRAINT_CHECK", "SQLITE_ERROR"}

Errnos == {1, 5, 8, 275, 787, 1299, 1555, 1811, 2067}

Messages ==
    {"database is locked",
     "UNIQUE constraint failed: User.email",
     "UNIQUE constraint failed: Member.teamId, Member.userId",
     "UNIQUE constraint failed: main.Slot.room, main.Slot.day, main.Slot.hour",
     "UNIQUE constraint failed: index 'User_lower_email'",
     "NOT NULL constraint failed: User.name",
     "FOREIGN KEY constraint failed",
     "CHECK constraint failed: age_positive",
     "no such table: Missing",
     "no such column: u.nope",
     "table User has no column named nope",
     "attempt to write a readonly database",
     "Binding expected string, TypedArray, boolean, number, bigint or null"}

NativeErrors ==
    [code: {{}} \cup {{c}: c \in Codes},
     errno: {{}} \cup {{n}: n \in Errnos},
     message: {{}} \cup {{m}: m \in Messages}]

\* The state of the adapter and its tasks after construction.
Fresh ==
    /\ locked = FALSE
    /\ queue = <<>>
    /\ disposed = FALSE
    /\ db = "open"
    /\ engineTx = FALSE
    /\ pc = [p \in Procs |-> "idle"]
    /\ ended = [p \in Procs |-> 0]
    /\ order = <<>>
    /\ last = Ran("init", "ok", <<>>, NoProc, FALSE)

adapter == <<build, locked, queue, disposed, db, engineTx, pc, ended, order, last>>

ClassifierInit ==
    /\ build \in SourceBuilds
    /\ Fresh
    /\ call \in [fn: CatchingHandlers, error: NativeErrors]
    /\ result = NoCall
    /\ table = NoTable

\* The statement (or BEGIN, or the script) of the handler fails with the error
\* and the catch block runs.
Catch ==
    /\ call.fn \in CatchingHandlers
    /\ result = NoCall
    /\ result' = rethrow(build, call.error)
    /\ UNCHANGED <<adapter, call, table>>

ClassifierNext == Catch

ClassifierSpec == ClassifierInit /\ [][ClassifierNext]_vars

\* The canonical code of an error: its symbolic code when it has one, else the
\* name SQLITE_ERROR_MAP gives its numeric code, else the unknown sentinel.
CanonicalCode(e) ==
    IF e.code # {} THEN CHOOSE c \in e.code: TRUE
    ELSE IF e.errno # {} /\ e.errno \subseteq DOMAIN SQLITE_ERROR_MAP
         THEN SQLITE_ERROR_MAP[CHOOSE n \in e.errno: TRUE]
         ELSE "SQLITE_UNKNOWN"

\* No rule of the taxonomy is for this error: its canonical code is none of
\* the dispatched codes and its message none of the dispatched messages.
NoTaxonomyRule(e) ==
    /\ CanonicalCode(e) \notin
           {"SQLITE_BUSY", "SQLITE_CONSTRAINT_UNIQUE", "SQLITE_CONSTRAINT_PRIMARYKEY",
            "SQLITE_CONSTRAINT_NOTNULL", "SQLITE_CONSTRAINT_FOREIGNKEY",
            "SQLITE_CONSTRAINT_TRIGGER"}
    /\ \A m \in e.message:
           /\ ~startsWith(m, "no such table")
           /\ ~startsWith(m, "no such column")
           /\ ~includes(m, "has no column named")

C12_NumericLikeSymbolic ==
    (call.fn \in CatchingHandlers /\ result # NoCall)
        => /\ result.raised = "DriverAdapterError"
                => result.value.originalCode = CanonicalCode(call.error)
           /\ (call.error.code = {} /\ call.error.errno # {}
                 /\ call.error.errno \subseteq DOMAIN SQLITE_ERROR_MAP)
                => LET twin == rethrow(build, [call.error EXCEPT !.code = {CanonicalCode(call.error)}])
                   IN  /\ result.raised = twin.raised
                       /\ result.raised = "DriverAdapterError" => result.value = twin.value

\* The composite-key messages of Messages, with the columns each lists.
CompositeKeyColumns ==
    ("UNIQUE constraint failed: Member.teamId, Member.userId" :> <<"teamId", "userId">>
     @@ "UNIQUE constraint failed: main.Slot.room, main.Slot.day, main.Slot.hour"
            :> <<"room", "day", "hour">>)

\* C13: an error with the code of a unique or primary-key constraint whose
\* message lists several qualified columns after "constraint failed: " becomes
\* a UniqueConstraintViolation whose field list is those columns, all of them,
\* in message order, without their table or schema qualifier.
C13_CompositeFields ==
    (call.fn \in CatchingHandlers /\ result # NoCall
       /\ call.error.code # {}
       /\ call.error.code \subseteq {"SQLITE_CONSTRAINT_UNIQUE", "SQLITE_CONSTRAINT_PRIMARYKEY"})
        => \A m \in call.error.message \cap DOMAIN CompositeKeyColumns:
               /\ result.raised = "DriverAdapterError"
               /\ result.value.kind = "UniqueConstraintViolation"
               /\ result.value.constraint = {[key |-> "fields", fields |-> CompositeKeyColumns[m]]}

\* C13 witness: a primary-key error on three schema-qualified columns has been
\* classified by bunsqlite-adapter.ts.
C13_ThreeColumnKey ==
    /\ build = "v011"
    /\ call.fn = "executeRaw"
    /\ call.error.code = {"SQLITE_CONSTRAINT_PRIMARYKEY"}
    /\ call.error.message = {"UNIQUE constraint failed: main.Slot.room, main.Slot.day, main.Slot.hour"}
    /\ result # NoCall
    /\ result.raised = "DriverAdapterError"
    /\ Len((CHOOSE c \in result.value.constraint: TRUE).fields) = 3

----
(***************************************************************************)
(* The column type resolver: mapDeclType, inferColumnType, getColumnTypes. *)
(* A ColumnType is written by its name in ColumnTypeEnum; "null" is null.  *)
(***************************************************************************)

\* The letters String.prototype.toUpperCase changes.
UpperCase ==
    ("a" :> "A" @@ "b" :> "B" @@ "c" :> "C" @@ "d" :> "D" @@ "e" :> "E" @@ "f" :> "F"
     @@ "g" :> "G" @@ "h" :> "H" @@ "i" :> "I" @@ "j" :> "J" @@ "k" :> "K" @@ "l" :> "L"
     @@ "m" :> "M" @@ "n" :> "N" @@ "o" :> "O" @@ "p" :> "P" @@ "q" :> "Q" @@ "r" :> "R"
     @@ "s" :> "S" @@ "t" :> "T" @@ "u" :> "U" @@ "v" :> "V" @@ "w" :> "W" @@ "x" :> "X"
     @@ "y" :> "Y" @@ "z" :> "Z")

RECURSIVE toUpperCase(_)
toUpperCase(s) ==
    IF s = "" THEN ""
    ELSE LET c == SubSeq(s, 1, 1)
         IN  (IF c \in DOMAIN UpperCase THEN UpperCase[c] ELSE c)
                 \o toUpperCase(SubSeq(s, 2, Len(s)))

\* String.prototype.toLowerCase.
RECURSIVE toLowerCase(_)
toLowerCase(s) ==
    IF s = "" THEN ""
    ELSE LET c == SubSeq(s, 1, 1)
             lower == {l \in DOMAIN UpperCase: UpperCase[l] = c}
         IN  (IF lower # {} THEN CHOOSE l \in lower: TRUE ELSE c)
                 \o toLowerCase(SubSeq(s, 2, Len(s)))

\* String.prototype.trim.
RECURSIVE trim(_)
trim(s) ==
    IF s = "" THEN ""
    ELSE IF SubSeq(s, 1, 1) \in {" ", "\t"} THEN trim(SubSeq(s, 2, Len(s)))
    ELSE IF SubSeq(s, Len(s), Len(s)) \in {" ", "\t"} THEN trim(SubSeq(s, 1, Len(s) - 1))
    ELSE s

\* s.replace(/\([^)]*\)/g, ""): every "(" up to the next ")" is cut out; a "("
\* that is never closed stays.
RECURSIVE stripParens(_)
stripParens(s) ==
    LET i == indexOf(s, "(", 1)
        j == IF i = 0 THEN 0 ELSE indexOf(s, ")", i + 1)
    IN  IF j = 0 THEN s
        ELSE SubSeq(s, 1, i - 1) \o stripParens(SubSeq(s, j + 1, Len(s)))

\* The switch of mapDeclType.  The cases part_003 has and bunsqlite-adapter.ts
\* has not are CHAR, JSON and the UNSIGNED variants.
declTypeCase(b, baseType) ==
    CASE baseType = "" -> "null"
      [] baseType = "DECIMAL" -> "Numeric"
      [] baseType = "FLOAT" -> "Float"
      [] baseType \in {"DOUBLE", "DOUBLE PRECISION", "NUMERIC", "REAL"} -> "Double"
      [] baseType \in {"TINYINT", "SMALLINT", "MEDIUMINT", "INT", "INTEGER", "SERIAL", "INT2"}
            -> "Int32"
      [] b # "v011" /\ baseType \in {"TINYINT UNSIGNED", "SMALLINT UNSIGNED", "MEDIUMINT UNSIGNED",
                                     "INT UNSIGNED", "INTEGER UNSIGNED"}
            -> "Int32"
      [] baseType \in {"BIGINT", "UNSIGNED BIG INT", "INT8"} -> "Int64"
      [] b # "v011" /\ baseType = "BIGINT UNSIGNED" -> "Int64"
      [] baseType \in {"DATETIME", "TIMESTAMP"} -> "DateTime"
      [] baseType = "TIME" -> "Time"
      [] baseType = "DATE" -> "Date"
      [] baseType \in {"TEXT", "CLOB", "CHARACTER", "VARCHAR", "VARYING CHARACTER", "NCHAR",
                       "NATIVE CHARACTER", "NVARCHAR"}
            -> "Text"
      [] b # "v011" /\ baseType = "CHAR" -> "Text"
      [] baseType = "BLOB" -> "Bytes"
      [] baseType = "BOOLEAN" -> "Boolean"
      [] baseType = "JSONB" -> "Json"
      [] b # "v011" /\ baseType = "JSON" -> "Json"
      [] OTHER -> "null"

\* mapDeclType: bunsqlite-adapter.ts switches on declType.toUpperCase();
\* part_003 trims it and cuts the parenthesized text out first.
mapDeclType(b, declType) ==
    IF b = "v011"
    THEN declTypeCase(b, toUpperCase(declType))
    ELSE declTypeCase(b, trim(stripParens(trim(toUpperCase(declType)))))

\* A value of the host, by its typeof (or its class, for an object) and its
\* text: a number and a bigint by their decimal numeral.
Value(t, v) == [t |-> t, v |-> v]

null == Value("null", "")

inferColumnType(value) ==
    CASE value.t = "string" -> "Text"
      [] value.t = "bigint" -> "Int64"
      [] value.t = "boolean" -> "Boolean"
      [] value.t = "number" -> "UnknownNumber"
      [] value.t \in {"ArrayBuffer", "Uint8Array", "Buffer"} -> "Bytes"
      [] value.t \in {"Array", "Date", "null"} -> "Text"
      [] OTHER -> "UnknownNumber"

\* getColumnTypes as it would be if the column took the type of its last
\* non-null value: the scan without its `break`.
getColumnTypesNoBreak(b, declaredTypes, rows) ==
    [i \in 1..Len(declaredTypes) |->
        LET mappedType == IF declaredTypes[i] # "" THEN mapDeclType(b, declaredTypes[i]) ELSE "null"
            found == {r \in 1..Len(rows): i > Len(rows[r]) \/ rows[r][i] # null}
            last_ == CHOOSE r \in found: \A q \in found: q <= r
        IN  IF mappedType # "null" THEN mappedType
            ELSE IF found = {} THEN "Int32"
            ELSE IF i > Len(rows[last_]) THEN "UnknownNumber"
            ELSE inferColumnType(rows[last_][i])]

\* getColumnTypes: the mapped declared type; for a column whose declared type
\* is empty or not in the switch, the type inferred from the first row whose
\* value is not null (a row too short has undefined there), Int32 when there
\* is none.
getColumnTypes(b, declaredTypes, rows) ==
    [i \in 1..Len(declaredTypes) |->
        LET mappedType == IF declaredTypes[i] # "" THEN mapDeclType(b, declaredTypes[i]) ELSE "null"
            found == {r \in 1..Len(rows): i > Len(rows[r]) \/ rows[r][i] # null}
            first == CHOOSE r \in found: \A q \in found: r <= q
        IN  IF mappedType # "null" THEN mappedType
            ELSE IF found = {} THEN "Int32"
            ELSE IF i > Len(rows[first]) THEN "UnknownNumber"
            ELSE inferColumnType(rows[first][i])]

----
(***************************************************************************)
(* The type coercion engine: mapRow and mapArg.                            *)
(***************************************************************************)

Base64Alphabet == "ABCDEFGHIJKLMNOPQRSTUVWXYZabcdefghijklmnopqrstuvwxyz0123456789+/"

\* The 6-bit values of the characters of s up to its padding; a character
\* outside the alphabet is skipped.
RECURSIVE sextets(_)
sextets(s) ==
    IF s = "" \/ SubSeq(s, 1, 1) = "=" THEN <<>>
    ELSE LET k == indexOf(Base64Alphabet, SubSeq(s, 1, 1), 1)
         IN  (IF k = 0 THEN <<>> ELSE <<k - 1>>) \o sextets(SubSeq(s, 2, Len(s)))

\* The bytes of a run of sextets: three of each four, and what a last group of
\* three or two holds.
RECURSIVE octets(_)
octets(x) ==
    IF Len(x) < 2 THEN <<>>
    ELSE LET n == x[1] * 262144 + x[2] * 4096
                    + (IF Len(x) >= 3 THEN x[3] * 64 ELSE 0) + (IF Len(x) >= 4 THEN x[4] ELSE 0)
             b == <<n \div 65536, (n \div 256) % 256, n % 256>>
         IN  IF Len(x) >= 4 THEN b \o octets(SubSeq(x, 5, Len(x)))
             ELSE SubSeq(b, 1, Len(x) - 1)

\* The number a run of decimal digits writes.
RECURSIVE digitsValue(_)
digitsValue(s) ==
    IF s = "" THEN 0
    ELSE 10 * digitsValue(SubSeq(s, 1, Len(s) - 1))
            + indexOf("0123456789", SubSeq(s, Len(s), Len(s)), 1) - 1

\* n in decimal, with zeros in front up to the given width.
RECURSIVE padStart(_, _)
padStart(n, width) ==
    IF Len(ToString(n)) >= width THEN ToString(n) ELSE "0" \o padStart(n, width - 1)

\* new Date(ms).toISOString() for an instant of January 1970.
toISOString(ms) ==
    "1970-01-" \o SubSeq(padStart(101 + (ms \div 86400000), 3), 2, 3)
        \o "T" \o SubSeq(padStart(100 + ((ms \div 3600000) % 24), 3), 2, 3)
        \o ":" \o SubSeq(padStart(100 + ((ms \div 60000) % 60), 3), 2, 3)
        \o ":" \o SubSeq(padStart(100 + ((ms \div 1000) % 60), 3), 2, 3)
        \o "." \o SubSeq(padStart(1000 + (ms % 1000), 4), 2, 4) \o "Z"

\* Number.isInteger of a number, by its numeral.
isInteger(v) == v # "NaN" /\ ~includes(v, ".")

\* Math.trunc of a number, by its numeral: what stands before the point.
trunc(v) == IF isInteger(v) \/ v = "NaN" THEN v ELSE SubSeq(v, 1, indexOf(v, ".", 1) - 1)

\* a <= b for two runs of decimal digits without leading zeros.
RECURSIVE digitsLeq(_, _)
digitsLeq(a, b) ==
    IF Len(a) # Len(b) THEN Len(a) < Len(b)
    ELSE IF a = "" THEN TRUE
    ELSE LET x == indexOf("0123456789", SubSeq(a, 1, 1), 1)
             y == indexOf("0123456789", SubSeq(b, 1, 1), 1)
         IN  IF x # y THEN x < y ELSE digitsLeq(SubSeq(a, 2, Len(a)), SubSeq(b, 2, Len(b)))

\* The digits of an integer numeral, without its sign.
magnitude(v) == IF SubSeq(v, 1, 1) = "-" THEN SubSeq(v, 2, Len(v)) ELSE v

\* Beyond the instants a Date holds: more than 8.64e15 ms from the epoch.
beyondDate(v) == ~digitsLeq(magnitude(trunc(v)), "8640000000000000")

\* The loop of mapRow as it would be if a bigint were handed on as it is:
\* without `result[i] = value.toString()`.
mapValueKeepBigInt(value, columnType) ==
    CASE value.t \in {"ArrayBuffer", "Uint8Array", "Buffer"} ->
            Value("Array", value.v)
      [] value.t = "string" /\ columnType = "Bytes" ->
            Value("Array", octets(sextets(value.v)))
      [] value.t = "number" /\ columnType \in {"Int32", "Int64"} /\ ~isInteger(value.v) ->
            Value("number", trunc(value.v))
      [] value.t \in {"number", "bigint"} /\ columnType = "DateTime" /\ Len(trunc(value.v)) <= 9
                /\ SubSeq(value.v, 1, 1) # "-" /\ value.v # "NaN" ->
            Value("string", toISOString(digitsValue(trunc(value.v))))
      [] value.t \in {"number", "bigint"} /\ columnType = "DateTime"
                /\ (value.v = "NaN" \/ beyondDate(value.v)) ->
            Value("throw", "RangeError: Invalid time value")
      [] value.t \notin {"number", "bigint"} \/ columnType # "DateTime" ->
            value

\* One turn of the loop of mapRow.  new Date(n).toISOString() is computed for
\* the instants of January 1970 (numerals of at most 9 digits); it throws a
\* RangeError for NaN and beyond +-8.64e15.
mapValue(value, columnType) ==
    CASE value.t \in {"ArrayBuffer", "Uint8Array", "Buffer"} ->
            Value("Array", value.v)
      [] value.t = "string" /\ columnType = "Bytes" ->
            Value("Array", octets(sextets(value.v)))
      [] value.t = "number" /\ columnType \in {"Int32", "Int64"} /\ ~isInteger(value.v) ->
            Value("number", trunc(value.v))
      [] value.t \in {"number", "bigint"} /\ columnType = "DateTime" /\ Len(trunc(value.v)) <= 9
                /\ SubSeq(value.v, 1, 1) # "-" /\ value.v # "NaN" ->
            Value("string", toISOString(digitsValue(trunc(value.v))))
      [] value.t \in {"number", "bigint"} /\ columnType = "DateTime"
                /\ (value.v = "NaN" \/ beyondDate(value.v)) ->
            Value("throw", "RangeError: Invalid time value")
      [] value.t = "bigint" /\ columnType # "DateTime" ->
            Value("string", value.v)
      [] value.t \notin {"number", "bigint"} \/ columnType # "DateTime" ->
            value

\* mapRow: a column past the end of columnTypes has the type undefined.
mapRow(row, columnTypes) ==
    [i \in 1..Len(row) |->
        mapValue(row[i], IF i <= Len(columnTypes) THEN columnTypes[i] ELSE "undefined")]

\* Within Number.MIN_SAFE_INTEGER .. Number.MAX_SAFE_INTEGER.
isSafeInteger(v) == digitsLeq(magnitude(v), "9007199254740991")

\* Within the 64-bit signed integers of the engine.
isInt64(v) ==
    IF SubSeq(v, 1, 1) = "-" THEN digitsLeq(magnitude(v), "9223372036854775808")
    ELSE digitsLeq(v, "9223372036854775807")

\* The longest run of decimal digits s starts with.
RECURSIVE leadingDigits(_)
leadingDigits(s) ==
    IF s = "" \/ indexOf("0123456789", SubSeq(s, 1, 1), 1) = 0 THEN ""
    ELSE SubSeq(s, 1, 1) \o leadingDigits(SubSeq(s, 2, Len(s)))

\* A run of digits without its leading zeros: "0" for a run of zeros.
RECURSIVE stripZeros(_)
stripZeros(d) ==
    IF Len(d) > 1 /\ SubSeq(d, 1, 1) = "0" THEN stripZeros(SubSeq(d, 2, Len(d))) ELSE d

\* A fraction without its trailing zeros.
RECURSIVE stripTrailingZeros(_)
stripTrailingZeros(d) ==
    IF d # "" /\ SubSeq(d, Len(d), Len(d)) = "0"
    THEN stripTrailingZeros(SubSeq(d, 1, Len(d) - 1))
    ELSE d

\* The double nearest to an integer: the integer itself within the safe
\* range; beyond it, for the integers the model uses, the neighbouring
\* multiple of the spacing of the doubles there.
toNumber(v) ==
    CASE isSafeInteger(v) -> v
      [] v = "9007199254740992" -> "9007199254740992"
      [] v = "9007199254740993" -> "9007199254740992"
      [] v = "-9007199254740993" -> "-9007199254740992"
      [] v = "9223372036854775807" -> "9223372036854775808"
      [] v = "-9223372036854775808" -> "-9223372036854775808"
      [] v = "9223372036854775808" -> "9223372036854775808"
      [] v = "18446744073709551616" -> "18446744073709551616"

\* The sign s starts with, and s without it.
signOf(s) == IF s # "" /\ SubSeq(s, 1, 1) = "-" THEN "-" ELSE ""

unsigned(s) == IF s # "" /\ SubSeq(s, 1, 1) \in {"-", "+"} THEN SubSeq(s, 2, Len(s)) ELSE s

\* An integer numeral from a sign and digits: no leading zeros, no "-0".
numeral(sign, digits) ==
    IF stripZeros(digits) = "0" THEN "0" ELSE sign \o stripZeros(digits)

\* Number.parseInt(s): the integer the text starts with, as a double; NaN when
\* it starts with none.
parseInt(s) ==
    LET t == trim(s)
        d == leadingDigits(unsigned(t))
    IN  IF d = "" THEN Value("number", "NaN")
        ELSE Value("number", toNumber(numeral(signOf(t), d)))

\* Number.parseFloat(s), for texts without an exponent.
parseFloat(s) ==
    LET t == trim(s)
        d == leadingDigits(unsigned(t))
        r == SubSeq(unsigned(t), Len(d) + 1, Len(unsigned(t)))
        f == IF r # "" /\ SubSeq(r, 1, 1) = "." THEN stripTrailingZeros(leadingDigits(SubSeq(r, 2, Len(r)))) ELSE ""
    IN  IF d = "" /\ f = "" THEN Value("number", "NaN")
        ELSE IF f = "" THEN Value("number", toNumber(numeral(signOf(t), d)))
        ELSE Value("number", signOf(t) \o stripZeros(IF d = "" THEN "0" ELSE d) \o "." \o f)

\* BigInt(s): the integer the whole text writes in decimal; 0n for an empty
\* text; a SyntaxError for any other text.
BigInt(s) ==
    LET t == trim(s)
        d == leadingDigits(unsigned(t))
    IN  IF t = "" THEN Value("bigint", "0")
        ELSE IF d # "" /\ Len(d) = Len(unsigned(t)) THEN Value("bigint", numeral(signOf(t), d))
        ELSE Value("throw", "SyntaxError: Cannot convert " \o s \o " to a BigInt")

\* String.prototype.replace(a, b) with a string pattern: its first occurrence.
replace(s, a, b) ==
    LET i == indexOf(s, a, 1)
    IN  IF i = 0 THEN s ELSE SubSeq(s, 1, i - 1) \o b \o SubSeq(s, i + Len(a), Len(s))

\* new Date(s) for the texts toISOString writes for January 1970: the Date,
\* by its milliseconds; an Invalid Date for any other text of the model.
newDate(s) ==
    IF /\ Len(s) = 24
       /\ SubSeq(s, 1, 8) = "1970-01-"
       /\ <<SubSeq(s, 11, 11), SubSeq(s, 14, 14), SubSeq(s, 17, 17), SubSeq(s, 20, 20), SubSeq(s, 24, 24)>>
              = <<"T", ":", ":", ".", "Z">>
       /\ \A k \in {9, 12, 15, 18, 21}: Len(leadingDigits(SubSeq(s, k, k + 1))) = 2
       /\ Len(leadingDigits(SubSeq(s, 21, 23))) = 3
    THEN Value("Date", ToString((digitsValue(SubSeq(s, 9, 10)) - 1) * 86400000
                                 + digitsValue(SubSeq(s, 12, 13)) * 3600000
                                 + digitsValue(SubSeq(s, 15, 16)) * 60000
                                 + digitsValue(SubSeq(s, 18, 19)) * 1000
                                 + digitsValue(SubSeq(s, 21, 23))))
    ELSE Value("Date", "NaN")

\* A Date as the timestampFormat has it written.
formatDate(date, timestampFormat) ==
    CASE timestampFormat = "unixepoch-ms" -> Value("number", date.v)
      [] timestampFormat = "iso8601" /\ date.v # "NaN" ->
            Value("string", replace(toISOString(digitsValue(date.v)), "Z", "+00:00"))
      [] timestampFormat = "iso8601" /\ date.v = "NaN" ->
            Value("throw", "RangeError: Invalid time value")
      [] OTHER -> Value("throw", "Error: Unknown timestamp format: " \o timestampFormat)

\* mapArg of bunsqlite-adapter.ts.
mapArgV011(arg, scalarType, options) ==
    CASE arg = null -> null
      [] arg.t = "string" /\ scalarType = "int" -> parseInt(arg.v)
      [] arg.t = "string" /\ scalarType \in {"float", "decimal"} -> parseFloat(arg.v)
      [] arg.t = "string" /\ scalarType = "bigint" -> BigInt(arg.v)
      [] arg.t = "boolean" -> Value("number", IF arg.v = "true" THEN "1" ELSE "0")
      [] arg.t = "string" /\ scalarType = "datetime" -> formatDate(newDate(arg.v), options.timestampFormat)
      [] arg.t = "Date" -> formatDate(arg, options.timestampFormat)
      [] arg.t = "string" /\ scalarType = "bytes" -> Value("Buffer", octets(sextets(arg.v)))
      [] arg.t = "Array" /\ scalarType = "bytes" -> Value("Buffer", arg.v)
      [] OTHER -> arg

\* mapArg of part_003.
mapArgV040(arg, scalarType, options) ==
    CASE arg = null -> null
      [] arg.t = "boolean" -> Value("number", IF arg.v = "true" THEN "1" ELSE "0")
      [] scalarType = "int" /\ arg.t = "string" -> parseInt(arg.v)
      [] scalarType \in {"float", "decimal"} /\ arg.t = "string" -> parseFloat(arg.v)
      [] scalarType = "bigint" /\ arg.t = "string" -> BigInt(arg.v)
      [] scalarType = "datetime" /\ arg.t = "string" ->
            formatDate(newDate(arg.v), IF options.timestampFormat = "unixepoch-ms" THEN "unixepoch-ms" ELSE "iso8601")
      [] scalarType = "datetime" /\ arg.t = "Date" ->
            formatDate(arg, IF options.timestampFormat = "unixepoch-ms" THEN "unixepoch-ms" ELSE "iso8601")
      [] scalarType = "bytes" /\ arg.t = "string" -> Value("Buffer", octets(sextets(arg.v)))
      [] scalarType = "bytes" /\ arg.t = "Array" -> Value("Buffer", arg.v)
      [] OTHER -> arg

mapArg(b, arg, scalarType, options) ==
    IF b = "v011" THEN mapArgV011(arg, scalarType, options) ELSE mapArgV040(arg, scalarType, options)

\* The arguments queryRaw and executeRaw pass to the statement: part_003 maps
\* them only when some argument is declared datetime, bytes or boolean.
mapArgs(b, args, argTypes, options) ==
    LET needsMapping == \E i \in 1..Len(argTypes): argTypes[i] \in {"datetime", "bytes", "boolean"}
    IN  IF b = "v011" \/ needsMapping
        THEN [i \in 1..Len(args) |->
                 IF i <= Len(argTypes) /\ argTypes[i] # ""
                 THEN mapArg(b, args[i], argTypes[i], options)
                 ELSE args[i]]
        ELSE args

----
(***************************************************************************)
(* The engine behind prepare / run / all / values: what bun:sqlite and     *)
(* SQLite do with a bound argument and with a stored cell.  A cell is a    *)
(* storage class and a text.                                               *)
(***************************************************************************)

Cell(class, v) == [class |-> class, v |-> v]

\* The affinity SQLite gives a column for its declared type.
affinity(declType) ==
    LET d == toUpperCase(declType)
    IN  CASE includes(d, "INT") -> "INTEGER"
          [] includes(d, "CHAR") \/ includes(d, "CLOB") \/ includes(d, "TEXT") -> "TEXT"
          [] d = "" \/ includes(d, "BLOB") -> "BLOB"
          [] includes(d, "REAL") \/ includes(d, "FLOA") \/ includes(d, "DOUB") -> "REAL"
          [] OTHER -> "NUMERIC"

\* The cell a bound argument makes: a bigint beyond 64 bits and a value that
\* is no string, number, bigint, boolean, null or byte array are refused.
bind(value) ==
    CASE value.t = "null" -> Cell("NULL", "")
      [] value.t = "number" /\ value.v = "NaN" -> Cell("NULL", "")
      [] value.t = "number" /\ isInteger(value.v) /\ isInt64(value.v) -> Cell("INTEGER", value.v)
      [] value.t = "number" /\ ~(isInteger(value.v) /\ isInt64(value.v)) /\ value.v # "NaN" ->
            Cell("REAL", value.v)
      [] value.t = "bigint" /\ isInt64(value.v) -> Cell("INTEGER", value.v)
      [] value.t = "bigint" /\ ~isInt64(value.v) -> Cell("throw", "RangeError: BigInt out of range")
      [] value.t = "boolean" -> Cell("INTEGER", IF value.v = "true" THEN "1" ELSE "0")
      [] value.t = "string" -> Cell("TEXT", value.v)
      [] value.t \in {"Buffer", "Uint8Array", "ArrayBuffer"} -> Cell("BLOB", value.v)
      [] OTHER -> Cell("throw", "TypeError: Binding expected string, TypedArray, boolean, number, bigint or null")

\* A text is a well-formed integer literal.
isIntegerLiteral(v) == unsigned(v) # "" /\ leadingDigits(unsigned(v)) = unsigned(v)

\* The cell as a column of the given affinity stores it: a text that writes an
\* integer becomes one in a numeric column (a real when 64 bits cannot hold
\* it); a number becomes its text in a text column.
store(cell, aff) ==
    CASE cell.class = "TEXT" /\ aff \in {"INTEGER", "NUMERIC", "REAL"} /\ isIntegerLiteral(cell.v) ->
            IF isInt64(numeral(signOf(cell.v), unsigned(cell.v)))
            THEN Cell(IF aff = "REAL" THEN "REAL" ELSE "INTEGER", numeral(signOf(cell.v), unsigned(cell.v)))
            ELSE Cell("REAL", toNumber(numeral(signOf(cell.v), unsigned(cell.v))))
      [] cell.class \in {"INTEGER", "REAL"} /\ aff = "TEXT" -> Cell("TEXT", cell.v)
      [] OTHER -> cell

\* The value the host gets for a cell: an INTEGER is a bigint under
\* safeIntegers, else a number.
load(cell, safeIntegers) ==
    CASE cell.class = "NULL" -> null
      [] cell.class = "INTEGER" ->
            IF safeIntegers THEN Value("bigint", cell.v) ELSE Value("number", toNumber(cell.v))
      [] cell.class = "REAL" -> Value("number", cell.v)
      [] cell.class = "TEXT" -> Value("string", cell.v)
      [] cell.class = "BLOB" -> Value("Uint8Array", cell.v)

\* An error of the host: it has a message, and neither code nor errno.
hostError(message) == [code |-> {}, errno |-> {}, message |-> {message}]

\* What a handler of the queryable hands back: what it raised ("none" when it
\* returned), the error or the value returned, and the arguments it gave the
\* statement.
Outcome(fn, raised, value, bound) ==
    [fn |-> fn, raised |-> raised, value |-> value, bound |-> bound]

\* The first of the values that is a throw, if any.
thrownIn(values) ==
    LET bad == {i \in 1..Len(values): values[i].t = "throw"}
    IN  IF bad = {} THEN {} ELSE {values[CHOOSE i \in bad: \A j \in bad: i <= j].v}

\* The statements of the model.
InsertSql == "INSERT INTO t VALUES (?)"
SelectSql == "SELECT * FROM t"
EchoSql == "SELECT ?"

\* The places of the names that stand nowhere earlier in the list.
dedupe(names) ==
    LET firsts == {i \in 1..Len(names): \A j \in 1..(i - 1): names[j] # names[i]}
        RECURSIVE pick(_)
        pick(i) == IF i > Len(names) THEN <<>>
                   ELSE IF i \in firsts THEN <<i>> \o pick(i + 1) ELSE pick(i + 1)
    IN  pick(1)

\* The last place a name stands at: the property of that name in the object
\* stmt.all() builds for a row has the value of that place.
lastIndexOf(names, name) ==
    CHOOSE i \in 1..Len(names): names[i] = name /\ \A j \in (i + 1)..Len(names): names[j] # name

\* db.prepare(sql) and the run of the statement with the arguments: the
\* columns of the result and its rows of cells; `thrown` holds the message of
\* the error when binding raised one.
statement(sql, args, tbl) ==
    LET cells == [i \in 1..Len(args) |-> bind(args[i])]
        bad == {i \in 1..Len(args): cells[i].class = "throw"}
    IN  IF bad # {}
        THEN [thrown |-> {cells[CHOOSE i \in bad: \A j \in bad: i <= j].v}, columns |-> <<>>, rows |-> <<>>]
        ELSE CASE sql = EchoSql ->
                    [thrown |-> {},
                     columns |-> [i \in 1..Len(args) |-> [name |-> "?", declType |-> ""]],
                     rows |-> <<cells>>]
               [] sql = SelectSql ->
                    [thrown |-> {}, columns |-> tbl.columns, rows |-> tbl.rows]
               [] sql = InsertSql ->
                    [thrown |-> {},
                     columns |-> <<>>,
                     rows |-> <<[i \in 1..Len(args) |->
                                   IF i <= Len(tbl.columns)
                                   THEN store(cells[i], affinity(tbl.columns[i].declType))
                                   ELSE cells[i]]>>]

\* stmt.columnNames and stmt.declaredTypes: the places of the columns they
\* list, all of them or, when the driver drops repeated names, the first of
\* each name.
listed(columns, dedup) ==
    IF dedup THEN dedupe([i \in 1..Len(columns) |-> columns[i].name])
    ELSE [i \in 1..Len(columns) |-> i]

\* The rows of host values of a result.
loaded(rows, safeIntegers) ==
    [r \in 1..Len(rows) |-> [i \in 1..Len(rows[r]) |-> load(rows[r][i], safeIntegers)]]

\* The result set, or the error the mapping of a row raised.
resultSet(columnNames, columnTypes, mappedRows) ==
    LET bad == {r \in 1..Len(mappedRows): thrownIn(mappedRows[r]) # {}}
    IN  IF bad # {}
        THEN [thrown |-> thrownIn(mappedRows[CHOOSE r \in bad: \A q \in bad: r <= q])]
        ELSE [thrown |-> {}, columnNames |-> columnNames, columnTypes |-> columnTypes, rows |-> mappedRows]

\* queryRaw of bunsqlite-adapter.ts from the statement on: stmt.all() gives
\* one object a row, and each listed name picks its property.
queryRawV011(b, stmt, tbl) ==
    LET names == [i \in 1..Len(stmt.columns) |-> stmt.columns[i].name]
        places == listed(stmt.columns, tbl.dedup)
        columnNames == [k \in 1..Len(places) |-> names[places[k]]]
        declaredTypes == [k \in 1..Len(places) |-> stmt.columns[places[k]].declType]
        rows == loaded(stmt.rows, tbl.safeIntegers)
        rowArrays == [r \in 1..Len(rows) |->
                         [k \in 1..Len(columnNames) |-> rows[r][lastIndexOf(names, columnNames[k])]]]
        columnTypes == getColumnTypes(b, declaredTypes, rowArrays)
    IN  resultSet(columnNames, columnTypes, [r \in 1..Len(rowArrays) |-> mapRow(rowArrays[r], columnTypes)])

\* queryRaw of part_003 as it would be if names and declared types were not
\* padded to the length of the first row.
queryRawV040Unpadded(b, stmt, tbl) ==
    LET names == [i \in 1..Len(stmt.columns) |-> stmt.columns[i].name]
        places == listed(stmt.columns, tbl.dedup)
        rowArrays == loaded(stmt.rows, tbl.safeIntegers)
        columnNames == [k \in 1..Len(places) |-> names[places[k]]]
        declaredTypes == [k \in 1..Len(places) |-> stmt.columns[places[k]].declType]
        columnTypes == getColumnTypes(b, declaredTypes, rowArrays)
    IN  resultSet(columnNames, columnTypes, [r \in 1..Len(rowArrays) |-> mapRow(rowArrays[r], columnTypes)])

\* queryRaw of part_003 from the statement on: stmt.values() gives one array
\* a row; names and declared types are padded to the length of the first row.
queryRawV040(b, stmt, tbl) ==
    LET names == [i \in 1..Len(stmt.columns) |-> stmt.columns[i].name]
        places == listed(stmt.columns, tbl.dedup)
        rowArrays == loaded(stmt.rows, tbl.safeIntegers)
        missingCount == IF Len(rowArrays) > 0 /\ Len(rowArrays[1]) > Len(places)
                        THEN Len(rowArrays[1]) - Len(places) ELSE 0
        columnNames == [k \in 1..(Len(places) + missingCount) |->
                           IF k <= Len(places) THEN names[places[k]] ELSE "column_" \o ToString(k - 1)]
        declaredTypes == [k \in 1..(Len(places) + missingCount) |->
                             IF k <= Len(places) THEN stmt.columns[places[k]].declType ELSE ""]
        columnTypes == getColumnTypes(b, declaredTypes, rowArrays)
    IN  resultSet(columnNames, columnTypes, [r \in 1..Len(rowArrays) |-> mapRow(rowArrays[r], columnTypes)])

\* queryRaw and executeRaw: the arguments are mapped, the statement is
\* prepared and run, and whatever is thrown on the way goes through the catch
\* block.
handle(b, query, tbl) ==
    LET args == mapArgs(b, query.args, query.argTypes, query.options)
        stmt == statement(query.sql, args, tbl)
        set == IF b = "v011" THEN queryRawV011(b, stmt, tbl) ELSE queryRawV040(b, stmt, tbl)
        raise(message, bound) ==
            LET r == rethrow(b, hostError(message))
            IN  Outcome(query.fn, r.raised, r.value, bound)
    IN  IF thrownIn(args) # {} THEN raise(CHOOSE m \in thrownIn(args): TRUE, <<>>)
        ELSE IF stmt.thrown # {} THEN raise(CHOOSE m \in stmt.thrown: TRUE, args)
        ELSE IF query.fn = "executeRaw" THEN Outcome("executeRaw", "none", Len(stmt.rows), args)
        ELSE IF set.thrown # {} THEN raise(CHOOSE m \in set.thrown: TRUE, args)
        ELSE Outcome("queryRaw", "none", set, args)

----
(***************************************************************************)
(* The queryable under statements: executeRaw inserts a row of arguments   *)
(* into a table whose columns are declared after the arguments' types,     *)
(* queryRaw reads the table back, echoes its arguments, or reads a join of *)
(* two tables that both have a column `id`.                                *)
(***************************************************************************)

MaxArgs == 2
MaxRows == 1

\* The lists over S of at most n members.
Lists(S, n) == UNION {[1..k -> S]: k \in 0..n}

\* Integers written in decimal: a small one, one past the safe range of a
\* double, the ends of the 64-bit range, and one past it.
Numerals ==
    {"42", "9007199254740993", "9223372036854775807", "-9223372036854775808", "9223372036854775808"}

Typed(arg, argType) == [arg |-> arg, argType |-> argType]

\* The argument a claim is about, and the arguments that stand beside it.
Subjects == {Typed(Value("string", n), t): n \in Numerals, t \in {"int", "float", "bigint"}}

Companions ==
    { Typed(Value("string", "ann"), "string"),
      Typed(Value("boolean", "true"), "boolean"),
      Typed(Value("string", "1970-01-02T00:00:00.000Z"), "datetime") }

ArgLists ==
    {<<s>> \o rest: s \in Subjects \cup Companions, rest \in Lists(Companions, MaxArgs - 1)}

\* The type a Prisma migration declares for a column of the scalar type.
columnDeclFor(argType) ==
    CASE argType = "int" -> "INTEGER"
      [] argType = "bigint" -> "BIGINT"
      [] argType = "float" -> "REAL"
      [] argType = "boolean" -> "BOOLEAN"
      [] argType = "datetime" -> "DATETIME"
      [] argType = "string" -> "TEXT"

Options == [timestampFormat: {"iso8601", "unixepoch-ms"}]

Query(fn, sql, typed, options) ==
    [fn |-> fn, sql |-> sql,
     args |-> [i \in 1..Len(typed) |-> typed[i].arg],
     argTypes |-> [i \in 1..Len(typed) |-> typed[i].argType],
     options |-> options]

\* users(id, name) joined with posts(id, title).
JoinColumns ==
    << [name |-> "id", declType |-> "INTEGER"], [name |-> "name", declType |-> "TEXT"],
       [name |-> "id", declType |-> "INTEGER"], [name |-> "title", declType |-> "TEXT"] >>

JoinRows ==
    {<<Cell("INTEGER", a), Cell("TEXT", "ann"), c, Cell("TEXT", "hello")>>:
        a \in {"1", "2"}, c \in {Cell("INTEGER", "1"), Cell("INTEGER", "3"), Cell("NULL", "")}}

QueryableInit ==
    /\ build \in SourceBuilds
    /\ Fresh
    /\ result = NoCall
    /\ \E dedup, safeIntegers \in BOOLEAN: \E options \in Options:
        \/ \E typed \in ArgLists:
            /\ call = Query("executeRaw", InsertSql, typed, options)
            /\ table = [columns |-> [i \in 1..Len(typed) |->
                                        [name |-> "c" \o ToString(i), declType |-> columnDeclFor(typed[i].argType)]],
                        rows |-> <<>>, dedup |-> dedup, safeIntegers |-> safeIntegers]
        \/ \E typed \in ArgLists:
            /\ call = Query("queryRaw", EchoSql, typed, options)
            /\ table = [NoTable EXCEPT !.dedup = dedup, !.safeIntegers = safeIntegers]
        \/ \E rows \in Lists(JoinRows, MaxRows):
            /\ call = Query("queryRaw", SelectSql, <<>>, options)
            /\ table = [columns |-> JoinColumns, rows |-> rows,
                        dedup |-> dedup, safeIntegers |-> safeIntegers]

\* executeRaw(query): the row of the arguments is in the table when the
\* statement ran.
ExecuteRaw ==
    /\ call.fn = "executeRaw"
    /\ result = NoCall
    /\ result' = handle(build, call, table)
    /\ table' = IF result'.raised = "none"
                THEN [table EXCEPT !.rows = @ \o statement(call.sql, result'.bound, table).rows]
                ELSE table
    /\ UNCHANGED <<adapter, call>>

\* queryRaw(query): the query of the call, or the read of the table after the
\* insert of the call.
QueryRaw ==
    /\ \/ call.fn = "queryRaw" /\ result = NoCall
       \/ call.fn = "executeRaw" /\ result # NoCall /\ result.fn = "executeRaw" /\ result.raised = "none"
    /\ result' = handle(build,
                        IF call.fn = "queryRaw" THEN call
                        ELSE Query("queryRaw", SelectSql, <<>>, call.options),
                        table)
    /\ UNCHANGED <<adapter, call, table>>

QueryableNext == ExecuteRaw \/ QueryRaw

QueryableSpec == QueryableInit /\ [][QueryableNext]_vars

----
(***************************************************************************)
(* Claims about result sets and arguments.                                 *)
(***************************************************************************)

\* The value a result row has for a cell of a column: the value the driver
\* loads, converted for the type the column is declared with.
produced(b, cell, column, safeIntegers) ==
    mapValue(load(cell, safeIntegers), mapDeclType(b, column.declType))

\* C15: when queryRaw returns the join of two tables that both have a column
\* `id`, every row of the result has one position for each column of the
\* join, and each position holds the value the engine produced there: no
\* position has the value of the other column of the same name.
C15_DuplicateColumnsKept ==
    (call.fn = "queryRaw" /\ call.sql = SelectSql /\ result # NoCall /\ result.raised = "none")
        => /\ Len(result.value.rows) = Len(table.rows)
           /\ \A r \in 1..Len(table.rows):
                /\ Len(result.value.rows[r]) = Len(table.columns)
                /\ \A i \in 1..Len(table.columns):
                     result.value.rows[r][i]
                         = produced(build, table.rows[r][i], table.columns[i], table.safeIntegers)

\* The call inserts one integer beyond the safe range of a double, written in
\* decimal and declared bigint (other arguments may stand beside it).
InsertsLargeInteger ==
    /\ call.fn = "executeRaw"
    /\ call.argTypes[1] = "bigint"
    /\ call.args[1].t = "string"
    /\ call.args[1].v \in Numerals
    /\ ~isSafeInteger(call.args[1].v)

\* The table was read back and its row has the argument's text in the first
\* column.
ReadBackSame ==
    /\ result.raised = "none"
    /\ Len(result.value.rows) = 1
    /\ result.value.rows[1][1] = call.args[1]

\* C16 as stated: every integer beyond the safe range, given as a decimal
\* string declared bigint, is stored by executeRaw, and queryRaw reads back
\* exactly the same decimal string.
C16_RoundTripEveryInteger ==
    (InsertsLargeInteger /\ result # NoCall)
        => /\ result.raised = "none"
           /\ result.fn = "queryRaw" => ReadBackSame

\* C16 amended: the round trip gives back the same decimal string for the
\* integers beyond the safe range that a signed 64-bit integer holds, on a
\* connection whose safeIntegers is on.
C16_RoundTripInt64 ==
    (InsertsLargeInteger /\ isInt64(call.args[1].v) /\ table.safeIntegers /\ result # NoCall)
        => /\ result.raised = "none"
           /\ result.fn = "queryRaw" => ReadBackSame

\* The largest 64-bit integer went in as the only argument and came back.
C16_Int64MaxReadBack ==
    /\ InsertsLargeInteger
    /\ call.args = <<Value("string", "9223372036854775807")>>
    /\ table.safeIntegers
    /\ result # NoCall
    /\ result.fn = "queryRaw"
    /\ ReadBackSame

\* C17: the statement of queryRaw and of executeRaw gets every argument that
\* has a declared type as mapArg makes it, whatever the other arguments are
\* declared; a string declared int, float or bigint reaches the statement as a
\* number or a bigint.
C17_AlwaysCoerced ==
    (call.fn \in {"queryRaw", "executeRaw"} /\ result # NoCall /\ result.fn = call.fn)
        => \A i \in 1..Len(call.args):
             /\ result.bound[i] = mapArg(build, call.args[i], call.argTypes[i], call.options)
             /\ (call.args[i].t = "string" /\ call.argTypes[i] \in {"int", "float", "bigint"})
                   => result.bound[i].t \in {"number", "bigint"}

----
(***************************************************************************)
(* The column type resolver under declared types as a schema writes them   *)
(* and a sample of rows of one column.                                     *)
(***************************************************************************)

MaxSample == 2

\* The declared types of the switch of mapDeclType (part_003).
BaseTypes ==
    {"DECIMAL", "FLOAT", "DOUBLE", "DOUBLE PRECISION", "NUMERIC", "REAL",
     "TINYINT", "SMALLINT", "MEDIUMINT", "INT", "INTEGER", "SERIAL", "INT2",
     "TINYINT UNSIGNED", "SMALLINT UNSIGNED", "MEDIUMINT UNSIGNED", "INT UNSIGNED", "INTEGER UNSIGNED",
     "BIGINT", "UNSIGNED BIG INT", "INT8", "BIGINT UNSIGNED",
     "DATETIME", "TIMESTAMP", "TIME", "DATE",
     "TEXT", "CLOB", "CHARACTER", "VARCHAR", "VARYING CHARACTER", "NCHAR", "NATIVE CHARACTER", "NVARCHAR", "CHAR",
     "BLOB", "BOOLEAN", "JSONB", "JSON"}

\* Declared types no case of the switch has, and the absent one.
OtherTypes == {"", "GEOMETRY", "MONEY"}

\* The ways a schema writes a type: as it is, in lower case, with a length or
\* a precision in parentheses, with blanks around it.
Styles == {"bare", "lower", "length", "precision", "blanks", "all"}

decorate(base, style) ==
    CASE style = "bare" -> base
      [] style = "lower" -> toLowerCase(base)
      [] style = "length" -> base \o "(255)"
      [] style = "precision" -> base \o "(10, 2)"
      [] style = "blanks" -> " " \o base \o " "
      [] style = "all" -> " " \o toLowerCase(base) \o " (255) "

\* The values bun:sqlite gives for a cell.
SampleValues ==
    {null, Value("string", "ann"), Value("bigint", "7"), Value("number", "1.5"), Value("Uint8Array", <<1>>)}

ResolverInit ==
    /\ build \in SourceBuilds
    /\ Fresh
    /\ result = NoCall
    /\ table = NoTable
    /\ \E base \in BaseTypes \cup OtherTypes: \E style \in Styles:
       \E rows \in Lists({<<v>>: v \in SampleValues}, MaxSample):
         /\ base \in OtherTypes => style = "bare"
         /\ call = [fn |-> "getColumnTypes", base |-> base, style |-> style,
                    declaredTypes |-> <<decorate(base, style)>>, rows |-> rows]

\* getColumnTypes(declaredTypes, rowArrays).
Resolve ==
    /\ call.fn = "getColumnTypes"
    /\ result = NoCall
    /\ result' = [fn |-> "getColumnTypes",
                  columnTypes |-> getColumnTypes(build, call.declaredTypes, call.rows)]
    /\ UNCHANGED <<adapter, call, table>>

ResolverNext == Resolve

ResolverSpec == ResolverInit /\ [][ResolverNext]_vars

\* C18: a declared type that is a recognized base type written in any case,
\* with a length or precision in parentheses and with blanks around it,
\* resolves to the type the bare base type resolves to.
C18_DecoratedLikeBare ==
    (call.fn = "getColumnTypes" /\ result # NoCall /\ mapDeclType(build, call.base) # "null")
        => result.columnTypes[1] = mapDeclType(build, call.base)

\* The column, by its declared type as the schema has it, is one the switch
\* has no case for (or none is declared).
Undeclared == call.declaredTypes[1] = "" \/ mapDeclType(build, call.declaredTypes[1]) = "null"

\* C19: a column without a recognized declared type has the type inferred
\* from the first value of the sample that is not null, in row order, and
\* Int32 when the sample has none; a column with a recognized declared type
\* has the type of the switch whatever the sample holds.
C19_Deferred ==
    (call.fn = "getColumnTypes" /\ result # NoCall)
        => LET rows == call.rows
               resolved == result.columnTypes[1]
           IN  /\ (Undeclared /\ \A r \in 1..Len(rows): rows[r][1] = null) => resolved = "Int32"
               /\ \A r \in 1..Len(rows):
                    (Undeclared /\ rows[r][1] # null /\ \A q \in 1..(r - 1): rows[q][1] = null)
                        => resolved = inferColumnType(rows[r][1])
               /\ ~Undeclared => resolved = mapDeclType(build, call.declaredTypes[1])

\* A column without a declared type whose sample has a null and then a text
\* resolved to Text.
C19_NullThenText ==
    /\ call.fn = "getColumnTypes"
    /\ result # NoCall
    /\ call.declaredTypes = <<"">>
    /\ call.rows = <<<<null>>, <<Value("string", "ann")>>>>
    /\ result.columnTypes = <<"Text">>

----
(***************************************************************************)
(* The factory: connect() opens the database and configures it with        *)
(* PRAGMA statements.  An optional field of the configuration is a set,    *)
(* empty when the field is undefined.                                      *)
(***************************************************************************)

ForeignKeysOn == "PRAGMA foreign_keys = ON"
JournalModeWal == "PRAGMA journal_mode = WAL"

\* config.wal: undefined, a boolean, or a WalConfiguration.
WalConfigs ==
    {[kind |-> "undefined"]}
    \cup [kind: {"boolean"}, enabled: BOOLEAN]
    \cup [kind: {"object"}, enabled: BOOLEAN,
          synchronous: {{}, {"NORMAL"}, {"FULL"}},
          walAutocheckpoint: {{}, {"0"}, {"1000"}},
          busyTimeout: {{}, {"0"}, {"10000"}}]

Urls == {":memory:", "file:./dev.db", "./dev.db"}

\* What the engine answers to PRAGMA journal_mode = WAL: a row with the mode
\* the journal is in now, no row, or an error.
JournalReports ==
    [thrown: {{}}, row: {{}, {"wal"}, {"WAL"}, {"delete"}, {"memory"}}]
    \cup [thrown: {{"disk I/O error"}}, row: {{}}]

\* url.replace(/^file:/, "").
dbPathOf(url) == IF startsWith(url, "file:") THEN SubSeq(url, Len("file:") + 1, Len(url)) ELSE url

\* configureWalMode (part_003): the statements it runs after foreign_keys, and
\* the DriverError it throws, if any.
configureWalMode(wal, report) ==
    LET config == IF wal.kind = "boolean" THEN [enabled |-> wal.enabled, synchronous |-> {},
                                                 walAutocheckpoint |-> {}, busyTimeout |-> {}]
                  ELSE wal
        currentMode == {toLowerCase(m): m \in report.row}
        message == IF report.thrown # {} THEN CHOOSE m \in report.thrown: TRUE
                   ELSE "Failed to enable WAL mode. Current mode: "
                        \o (IF currentMode = {} THEN "unknown" ELSE CHOOSE m \in currentMode: TRUE)
    IN  IF wal.kind = "undefined" \/ ~config.enabled
        THEN [thrown |-> {}, pragmas |-> <<"PRAGMA busy_timeout = 5000">>]
        ELSE IF currentMode # {"wal"}
        THEN [thrown |-> {[kind |-> "GenericJs", id |-> 0,
                           originalMessage |-> "Failed to enable WAL mode: " \o message]},
              pragmas |-> <<JournalModeWal>>]
        ELSE [thrown |-> {},
              pragmas |-> <<JournalModeWal>>
                  \o (IF config.synchronous # {}
                      THEN <<"PRAGMA synchronous = " \o (CHOOSE x \in config.synchronous: TRUE)>> ELSE <<>>)
                  \o (IF config.walAutocheckpoint # {}
                      THEN <<"PRAGMA wal_autocheckpoint = " \o (CHOOSE x \in config.walAutocheckpoint: TRUE)>>
                      ELSE <<>>)
                  \o <<"PRAGMA busy_timeout = "
                          \o (IF config.busyTimeout # {} THEN CHOOSE x \in config.busyTimeout: TRUE ELSE "5000")>>]

\* connect() of part_003: createConnection, then the adapter.
connectV040(config, report) ==
    LET wal == IF dbPathOf(config.url) # ":memory:" THEN configureWalMode(config.wal, report)
               ELSE [thrown |-> {}, pragmas |-> <<>>]
    IN  [fn |-> "connect",
         raised |-> IF wal.thrown # {} THEN "DriverAdapterError" ELSE "none",
         value |-> IF wal.thrown # {} THEN CHOOSE e \in wal.thrown: TRUE ELSE [adapter |-> "BunSqliteAdapter"],
         pragmas |-> <<ForeignKeysOn>> \o wal.pragmas]

\* connect() of bunsqlite-adapter.ts: the three statements, whatever the
\* configuration and the target; an error of the engine leaves as it is.
connectV011(config, report) ==
    [fn |-> "connect",
     raised |-> IF report.thrown # {} THEN "original" ELSE "none",
     value |-> IF report.thrown # {} THEN hostError(CHOOSE m \in report.thrown: TRUE)
               ELSE [adapter |-> "BunSQLiteAdapter"],
     pragmas |-> <<ForeignKeysOn, "PRAGMA busy_timeout = 5000", JournalModeWal>>]

connect(b, config, report) ==
    IF b = "v011" THEN connectV011(config, report) ELSE connectV040(config, report)

ConnectInit ==
    /\ build \in SourceBuilds
    /\ Fresh
    /\ result = NoCall
    /\ table = NoTable
    /\ call \in [fn: {"connect", "connectToShadowDb"},
                  config: [url: Urls, shadowDatabaseUrl: {{}} \cup {{u}: u \in Urls}, wal: WalConfigs],
                  report: JournalReports]
    /\ build = "v011" => call.fn = "connect"

Connect ==
    /\ call.fn = "connect"
    /\ result = NoCall
    /\ result' = connect(build, call.config, call.report)
    /\ UNCHANGED <<adapter, call, table>>

\* The target of the shadow connection: config.shadowDatabaseUrl ?? ":memory:".
shadowUrl(config) ==
    IF config.shadowDatabaseUrl = {} THEN ":memory:" ELSE CHOOSE u \in config.shadowDatabaseUrl: TRUE

\* connectToShadowDb() of part_003 (bunsqlite-adapter.ts has none).
ConnectToShadowDb ==
    /\ call.fn = "connectToShadowDb"
    /\ build # "v011"
    /\ result = NoCall
    /\ result' = [connectV040([call.config EXCEPT !.url = shadowUrl(call.config)], call.report)
                      EXCEPT !.fn = "connectToShadowDb"]
    /\ UNCHANGED <<adapter, call, table>>

ConnectNext == Connect \/ ConnectToShadowDb

ConnectSpec == ConnectInit /\ [][ConnectNext]_vars

\* The configuration asks for write-ahead logging, and the target is a file.
WalRequested ==
    /\ call.config.wal.kind # "undefined"
    /\ call.config.wal.enabled
    /\ dbPathOf(call.config.url) # ":memory:"

\* The engine reports the journal in WAL mode.
WalReported == call.report.row # {} /\ \A m \in call.report.row: toLowerCase(m) = "wal"

\* The place of a configuration statement in the order the claim gives.
rank(pragma) ==
    CASE pragma = ForeignKeysOn -> 1
      [] pragma = JournalModeWal -> 2
      [] startsWith(pragma, "PRAGMA synchronous = ") -> 3
      [] startsWith(pragma, "PRAGMA wal_autocheckpoint = ") -> 4
      [] startsWith(pragma, "PRAGMA busy_timeout = ") -> 5

\* C20: connect() runs the foreign-key statement first; when WAL is asked for
\* on a file it then switches the journal mode; if the engine does not report
\* WAL, connect() throws a configuration error (GenericJs) at once, with no
\* further statement and no adapter; after a verified switch come the
\* durability mode, the checkpoint threshold and the lock-wait timeout, each
\* one configured being applied, in that order, the timeout last.
C20_SetUpOrder ==
    (call.fn = "connect" /\ result # NoCall)
        => LET p == result.pragmas
               wal == call.config.wal
           IN  /\ p # <<>> /\ p[1] = ForeignKeysOn
               /\ WalRequested =>
                    /\ Len(p) >= 2 /\ p[2] = JournalModeWal
                    /\ ~WalReported =>
                         /\ result.raised = "DriverAdapterError"
                         /\ result.value.kind = "GenericJs"
                         /\ Len(p) = 2
                    /\ WalReported =>
                         /\ result.raised = "none"
                         /\ \A i \in 1..(Len(p) - 1): rank(p[i]) < rank(p[i + 1])
                         /\ rank(p[Len(p)]) = 5
                         /\ wal.kind = "object" =>
                              /\ \A x \in wal.synchronous: \E i \in 1..Len(p): p[i] = "PRAGMA synchronous = " \o x
                              /\ \A x \in wal.walAutocheckpoint:
                                    \E i \in 1..Len(p): p[i] = "PRAGMA wal_autocheckpoint = " \o x
                              /\ \A x \in wal.busyTimeout: p[Len(p)] = "PRAGMA busy_timeout = " \o x

\* The target the call connects to.
targetPath == dbPathOf(IF call.fn = "connect" THEN call.config.url ELSE shadowUrl(call.config))

\* The configuration enables write-ahead logging.
WalEnabled == call.config.wal.kind # "undefined" /\ call.config.wal.enabled

\* C21: with write-ahead logging enabled and the in-memory target, of the
\* primary or of the shadow connection, connecting runs no journal-mode
\* statement, raises nothing and returns an adapter.
C21_MemoryWalNoOp ==
    (call.fn \in {"connect", "connectToShadowDb"} /\ result # NoCall
            /\ WalEnabled /\ targetPath = ":memory:")
        => /\ \A i \in 1..Len(result.pragmas): result.pragmas[i] # JournalModeWal
           /\ result.raised = "none"
           /\ "adapter" \in DOMAIN result.value

\* C22: a connection returned without write-ahead logging applied (not
\* configured, disabled, or the in-memory target) had the default lock-wait
\* timeout of 5000 ms applied; no connection is returned without a lock-wait
\* timeout.
C22_DefaultBusyTimeout ==
    (call.fn \in {"connect", "connectToShadowDb"} /\ result # NoCall /\ result.raised = "none")
        => /\ \E i \in 1..Len(result.pragmas): startsWith(result.pragmas[i], "PRAGMA busy_timeout = ")
           /\ ~(WalEnabled /\ targetPath # ":memory:")
                => \E i \in 1..Len(result.pragmas): result.pragmas[i] = "PRAGMA busy_timeout = 5000"

----
(***************************************************************************)
(* Claims about the lock on the paths of commit, rollback, startTransaction *)
(* and dispose.                                                             *)
(***************************************************************************)

\* The places of an event in the trace of a handler.
places(ev, e) == {i \in 1..Len(ev): ev[i] = e}

\* C23: a call of commit() or rollback() releases the lock exactly once on
\* every path: the mutex goes through one release(), also when the COMMIT or
\* ROLLBACK the call runs fails; a failed COMMIT is thrown to the caller after
\* the release; rollback() never throws.
C23_ReleaseOncePerCall ==
    [][last'.op \in {"commit", "rollback"}
          => /\ Cardinality(places(last'.ev, "release")) = 1
             /\ IF queue # <<>>
                THEN locked' /\ queue' = Tail(queue) /\ last'.woke = Head(queue)
                ELSE ~locked' /\ queue' = <<>> /\ last'.woke = NoProc
             /\ last'.op = "rollback" => (last'.res = "ok" /\ places(last'.ev, "throw") = {})
             /\ last'.ev[1] = "COMMIT!"
                   => /\ last'.res = "error"
                      /\ \E i \in places(last'.ev, "release"): \E j \in places(last'.ev, "throw"): i < j]_vars

\* A commit() whose COMMIT failed has thrown, and a waiter holds the lock it
\* released.
C23_FailedCommitHandedOver ==
    /\ last.op = "commit"
    /\ last.ev = <<"COMMIT!", "release", "throw">>
    /\ last.woke # NoProc
    /\ pc[last.woke] = "granted"

\* C24: when startTransaction fails after it acquired the lock (BEGIN raised,
\* or the construction of the Transaction raised), it releases the lock once,
\* before it throws: the oldest waiter, if there is one, now holds the lock,
\* and else the lock is free for the next startTransaction.
C24_NoLeakOnFailedStart ==
    [][(last'.op = "resume" /\ last'.res = "error")
          => /\ Cardinality(places(last'.ev, "release")) = 1
             /\ \E i \in places(last'.ev, "release"): \E j \in places(last'.ev, "throw"): i < j
             /\ \E p \in Procs: pc[p] = "granted" /\ pc'[p] = "idle"
             /\ IF queue # <<>>
                THEN /\ locked' /\ queue' = Tail(queue)
                     /\ pc'[Head(queue)] \in {"granted", "dgranted"}
                ELSE ~locked' /\ queue' = <<>>]_vars

\* A startTransaction whose BEGIN raised has thrown, and a waiter holds the
\* lock it released.
C24_FailedBeginHandedOver ==
    /\ last.op = "resume"
    /\ last.res = "error"
    /\ last.ev[1] = "BEGIN!"
    /\ last.woke # NoProc
    /\ pc[last.woke] = "granted"

\* C28: whenever the lock is free the engine has no open transaction; so the
\* BEGIN of a startTransaction is never refused on an open connection because
\* the transaction of an earlier startTransaction is still open.
C28_NoAbandonedTransaction ==
    /\ ~locked => ~engineTx
    /\ (last.op = "resume" /\ last.ev[1] = "BEGIN!") => db = "closed"

\* C29: the connection is closed exactly once however often dispose() is
\* called: close() is never run on a connection that is closed already; every
\* call of dispose() returns with the connection closed, also a second call
\* made while the first waits for the lock; and the dispose() that closed the
\* connection releases the lock it took.
C29_DisposeOnce ==
    [][/\ places(last'.ev, "close") # {} => db = "open"
       /\ ((last'.op = "dispose" /\ last'.res = "ok") \/ last'.op = "dispose.resume")
             => db' = "closed"
       /\ last'.op = "dispose.resume"
             => /\ Cardinality(places(last'.ev, "release")) = 1
                /\ queue = <<>> => ~locked']_vars

\* C30: in every state of the AsyncMutex a waiter in the queue implies the
\* flag is set; a release() with waiters takes the head of the queue, and only
\* it, and hands it the lock with the flag set before and after; a release()
\* without waiters clears the flag and leaves the queue empty.
C30_HandOff ==
    /\ [](queue # <<>> => locked)
    /\ [][places(last'.ev, "release") # {}
             => IF queue # <<>>
                THEN /\ locked /\ locked'
                     /\ queue' = Tail(queue)
                     /\ last'.woke = Head(queue)
                     /\ pc'[Head(queue)] \in {"granted", "dgranted"}
                ELSE ~locked' /\ queue' = <<>> /\ last'.woke = NoProc]_vars

\* A release has handed the lock to the head of the queue and left another
\* waiter behind it.
C30_HandedOverWithWaiterLeft ==
    /\ places(last.ev, "release") # {}
    /\ last.woke # NoProc
    /\ pc[last.woke] \in {"granted", "dgranted"}
    /\ queue # <<>>
    /\ locked

\* The codes the switch of convertDriverError has a case for.
DispatchedCodes ==
    {"SQLITE_BUSY", "SQLITE_CONSTRAINT_UNIQUE", "SQLITE_CONSTRAINT_PRIMARYKEY",
     "SQLITE_CONSTRAINT_NOTNULL", "SQLITE_CONSTRAINT_FOREIGNKEY",
     "SQLITE_CONSTRAINT_TRIGGER"}

\* C25: the canonical code is dispatched before the message is looked at.  An
\* error with a message whose canonical code is lock-busy, unique or primary
\* key, not-null, or foreign key or trigger is classified as SocketTimeout,
\* UniqueConstraintViolation, NullConstraintViolation or
\* ForeignKeyConstraintViolation (with the constraint {foreignKey: {}} and no
\* field list) whatever the message says; a kind of the message rules is given
\* only to an error whose canonical code is none of those.
C25_CodeBeforeMessage ==
    (call.fn \in CatchingHandlers /\ result # NoCall /\ call.error.message # {})
        => LET c == CanonicalCode(call.error)
               kindOf == ("SQLITE_BUSY" :> "SocketTimeout"
                          @@ "SQLITE_CONSTRAINT_UNIQUE" :> "UniqueConstraintViolation"
                          @@ "SQLITE_CONSTRAINT_PRIMARYKEY" :> "UniqueConstraintViolation"
                          @@ "SQLITE_CONSTRAINT_NOTNULL" :> "NullConstraintViolation"
                          @@ "SQLITE_CONSTRAINT_FOREIGNKEY" :> "ForeignKeyConstraintViolation"
                          @@ "SQLITE_CONSTRAINT_TRIGGER" :> "ForeignKeyConstraintViolation")
           IN  /\ c \in DispatchedCodes
                    => /\ result.raised = "DriverAdapterError"
                       /\ result.value.kind = kindOf[c]
                       /\ result.value.kind = "ForeignKeyConstraintViolation"
                            => result.value.constraint = {[key |-> "foreignKey", fields |-> <<>>]}
               /\ (result.raised = "DriverAdapterError"
                     /\ result.value.kind \in {"TableDoesNotExist", "ColumnNotFound"})
                    => c \notin DispatchedCodes

\* The members of ColumnTypeEnum.
ColumnTypeEnum ==
    {"Int32", "Int64", "Float", "Double", "Numeric", "Boolean", "Character", "Text",
     "Date", "Time", "DateTime", "Json", "Enum", "Bytes", "Set", "Uuid",
     "Int32Array", "Int64Array", "FloatArray", "DoubleArray", "NumericArray",
     "BooleanArray", "CharacterArray", "TextArray", "DateArray", "TimeArray",
     "DateTimeArray", "JsonArray", "EnumArray", "BytesArray", "UuidArray",
     "UnknownNumber"}

----
(***************************************************************************)
(* mapRow under raw rows and column type vectors: a row of at most         *)
(* MaxWidth values as the driver loads them, and column types for its      *)
(* first columns or for all of them.                                       *)
(***************************************************************************)

MaxWidth == 2

\* Values of a raw row: numbers with and without a fraction, big integers
\* small, beyond the safe range and at the end of the 64-bit range, an
\* instant in milliseconds, texts, bytes and null.
RawValues ==
    {Value("number", "3"), Value("number", "1.5"), Value("number", "86400000"),
     Value("number", "90061001.75"),
     Value("bigint", "42"), Value("bigint", "86400000"),
     Value("bigint", "9007199254740993"), Value("bigint", "9223372036854775807"),
     Value("string", "ann"), Value("string", "aGk="),
     Value("Uint8Array", <<104, 105>>), null}

RowColumnTypes == {"Int32", "Int64", "Double", "DateTime", "Text", "Bytes"}

DecodeInit ==
    /\ build \in SourceBuilds
    /\ Fresh
    /\ result = NoCall
    /\ table = NoTable
    /\ call \in [fn: {"mapRow"}, row: Lists(RawValues, MaxWidth),
                 columnTypes: Lists(RowColumnTypes, MaxWidth)]
    /\ Len(call.columnTypes) <= Len(call.row)

\* mapRow(row, columnTypes): the decoded row, or the error the conversion of
\* a value threw.
MapRow ==
    /\ call.fn = "mapRow"
    /\ result = NoCall
    /\ result' = LET decoded == mapRow(call.row, call.columnTypes)
                 IN  IF thrownIn(decoded) # {}
                     THEN [fn |-> "mapRow", raised |-> "original",
                           value |-> hostError(CHOOSE m \in thrownIn(decoded): TRUE)]
                     ELSE [fn |-> "mapRow", raised |-> "none", value |-> decoded]
    /\ UNCHANGED <<adapter, call, table>>

DecodeNext == MapRow

DecodeSpec == DecodeInit /\ [][DecodeNext]_vars

\* The column type mapRow reads for a position of the row.
columnTypeAt(i) == IF i <= Len(call.columnTypes) THEN call.columnTypes[i] ELSE "undefined"

\* C27: mapRow decodes every raw row under every column type vector, and no
\* value of the decoded row is a bigint: a bigint or a number in a DateTime
\* column has become the ISO-8601 text of that instant and not its decimal
\* text, a bigint in any other column its decimal text, and a number with a
\* fraction in an Int32 or Int64 column the number truncated toward zero.
C27_DecodedWithoutBigInt ==
    (call.fn = "mapRow" /\ result # NoCall)
        => /\ result.raised = "none"
           /\ \A i \in 1..Len(call.row):
                LET raw == call.row[i]
                    out == result.value[i]
                IN  /\ out.t # "bigint"
                    /\ (raw.t \in {"number", "bigint"} /\ columnTypeAt(i) = "DateTime")
                         => /\ out.t = "string"
                            /\ out.v # raw.v
                            /\ newDate(out.v) = Value("Date", trunc(raw.v))
                    /\ (raw.t = "bigint" /\ columnTypeAt(i) # "DateTime")
                         => out = Value("string", raw.v)
                    /\ (raw.t = "number" /\ columnTypeAt(i) \in {"Int32", "Int64"} /\ ~isInteger(raw.v))
                         => out = Value("number", trunc(raw.v))
====
